---- MODULE Spec2Model ----
(***************************************************************************)
(* Jubilapp API: recommendation and semantic classification engine.        *)
(*                                                                         *)
(* Python strings are modelled as sequences of atoms (TLA+ strings).  The  *)
(* whitespace atom is " ".  Category names are spelled one character per   *)
(* atom (a precomposed accented letter is one atom that NFKD splits into   *)
(* its base letter and a combining mark); names, interests and levels are  *)
(* spelled one word per atom.  Accented letters of the source's literals   *)
(* are written without the accent where the code compares them exactly.    *)
(* Python's None is the reserved string NoneStr.                            *)
(***************************************************************************)
EXTENDS Integers, Sequences, FiniteSets, TLC

VARIABLES
  rec,        \* the recommend_atemporales call: its inputs and its result
  req,        \* the classifier request: the operation and its inputs
  ai,         \* the classifier call: what the provider did and the result
  prepRefs,   \* the lru_cache entry of _preparation_reference_vectors
  levelOrder, \* the iteration order of the set MOBILITY_LEVELS in this process
  store,      \* the documents of the collection interests_catalog, by document id
  embMemo,    \* the lru_cache entry of load_interest_embeddings
  threads,    \* the request threads: the running cache call and its locals
  ncalls,     \* cache calls started so far
  lastEdit,   \* the last edit of a catalog name (doc 0: none yet)
  userDoc,    \* the document of the user in the collection users
  http,       \* the request to a level boundary: its inputs and its result
  prefs,      \* the get_user_category_preferences call: the user's data, the profile
  remote,     \* the _embed_texts_remote call: its inputs, its loop state, its result
  hf,         \* the module huggingface: its configuration, its globals, the embed_texts call
  norm        \* a category name and what the two _normalize_category_token make of it

vars ==
  <<rec, req, ai, prepRefs, levelOrder, store, embMemo, threads, ncalls, lastEdit,
    userDoc, http, prefs, remote, hf, norm>>

cacheVars == <<store, embMemo, threads, ncalls, lastEdit>>

profileVars == <<userDoc, http, prefs>>

restVars == <<rec, req, ai, prepRefs, levelOrder, userDoc, http, prefs, remote, hf, norm>>

aiVars == <<req, ai, prepRefs, levelOrder, remote, hf, norm>>

-----------------------------------------------------------------------------
(* Strings *)

NoneStr == <<"<None>">>

Truthy(s) == s # NoneStr /\ s # <<>>

IsSpace(c) == c = " "

RECURSIVE LStrip(_)
LStrip(s) == IF s # <<>> /\ IsSpace(Head(s)) THEN LStrip(Tail(s)) ELSE s

RECURSIVE RStrip(_)
RStrip(s) ==
  IF s # <<>> /\ IsSpace(s[Len(s)]) THEN RStrip(SubSeq(s, 1, Len(s) - 1)) ELSE s

\* str.strip()
Strip(s) == RStrip(LStrip(s))

LowerAtom(c) ==
  CASE c = "A" -> "a" [] c = "C" -> "c" [] c = "F" -> "f" [] c = "G" -> "g"
    [] c = "I" -> "i" [] c = "L" -> "l" [] c = "O" -> "o" [] c = "S" -> "s"
    [] c = "V" -> "v" [] c = "T" -> "t"
    [] c = "I_ACUTE" -> "i_acute"
    [] c = "Baja" -> "baja" [] c = "BAJA" -> "baja" [] c = "Media" -> "media"
    [] c = "ALTA" -> "alta" [] c = "Planificado" -> "planificado"
    [] OTHER -> c

\* str.lower()
Lower(s) == [i \in DOMAIN s |-> LowerAtom(s[i])]

\* unicodedata.normalize("NFKD", ch) of one character
Decompose(c) ==
  CASE c = "i_acute" -> <<"i", "COMBINING_ACUTE">>
    [] c = "I_ACUTE" -> <<"I", "COMBINING_ACUTE">>
    [] OTHER -> <<c>>

RECURSIVE NFKD(_)
NFKD(s) == IF s = <<>> THEN <<>> ELSE Decompose(Head(s)) \o NFKD(Tail(s))

\* unicodedata.combining(ch) != 0
Combining(c) == c = "COMBINING_ACUTE"

RemoveCombining(s) == SelectSeq(s, LAMBDA c : ~Combining(c))

-----------------------------------------------------------------------------
(* domain_activities.py: the atemporal catalog and the ranking *)

ATEMPORAL_ACTIVITIES ==
  <<
    [id |-> 1, tags |-> <<"Caminatas / trekking">>, indoor |-> FALSE, energy |-> "media", duration_min |-> 30, cost |-> "gratis", time_of_day |-> "manana"],
    [id |-> 2, tags |-> <<"Gimnasia suave / yoga / pilates">>, indoor |-> TRUE, energy |-> "baja", duration_min |-> 20, cost |-> "gratis", time_of_day |-> "manana"],
    [id |-> 3, tags |-> <<"Gimnasia suave / yoga / pilates">>, indoor |-> TRUE, energy |-> "baja", duration_min |-> 15, cost |-> "gratis", time_of_day |-> "manana"],
    [id |-> 4, tags |-> <<"Pintura / Dibujo">>, indoor |-> TRUE, energy |-> "baja", duration_min |-> 45, cost |-> "bajo", time_of_day |-> "tarde"],
    [id |-> 5, tags |-> <<"Escritura / lectura creativa">>, indoor |-> TRUE, energy |-> "baja", duration_min |-> 20, cost |-> "gratis", time_of_day |-> "tarde"],
    [id |-> 6, tags |-> <<"Musica (escuchar, cantar, tocar instrumento)">>, indoor |-> TRUE, energy |-> "baja", duration_min |-> 30, cost |-> "gratis", time_of_day |-> "tarde"],
    [id |-> 7, tags |-> <<"Fotografia", "Historia y cultura">>, indoor |-> TRUE, energy |-> "baja", duration_min |-> 40, cost |-> "gratis", time_of_day |-> "tarde"],
    [id |-> 8, tags |-> <<"Idiomas">>, indoor |-> TRUE, energy |-> "baja", duration_min |-> 15, cost |-> "gratis", time_of_day |-> "manana"],
    [id |-> 9, tags |-> <<"Cocina saludable">>, indoor |-> TRUE, energy |-> "media", duration_min |-> 45, cost |-> "medio", time_of_day |-> "tarde"],
    [id |-> 10, tags |-> <<"Jardineria">>, indoor |-> FALSE, energy |-> "baja", duration_min |-> 25, cost |-> "bajo", time_of_day |-> "manana"],
    [id |-> 11, tags |-> <<"Club de lectura">>, indoor |-> TRUE, energy |-> "baja", duration_min |-> 30, cost |-> "gratis", time_of_day |-> "tarde"],
    [id |-> 12, tags |-> <<"Juegos de mesa / cartas">>, indoor |-> TRUE, energy |-> "baja", duration_min |-> 30, cost |-> "bajo", time_of_day |-> "noche"],
    [id |-> 13, tags |-> <<"Videollamadas con familia / amigos">>, indoor |-> TRUE, energy |-> "baja", duration_min |-> 20, cost |-> "gratis", time_of_day |-> "tarde"],
    [id |-> 14, tags |-> <<"Meditacion / mindfulness">>, indoor |-> TRUE, energy |-> "baja", duration_min |-> 10, cost |-> "gratis", time_of_day |-> "manana"],
    [id |-> 15, tags |-> <<"Cursos online / talleres", "Tecnologia (apps, redes sociales)", "Fotografia y edicion digital">>, indoor |-> TRUE, energy |-> "media", duration_min |-> 30, cost |-> "gratis", time_of_day |-> "tarde"],
    [id |-> 16, tags |-> <<"Museos, teatro, cine", "Historia y cultura">>, indoor |-> TRUE, energy |-> "baja", duration_min |-> 30, cost |-> "gratis", time_of_day |-> "tarde"],
    [id |-> 17, tags |-> <<"Baile", "Musica (escuchar, cantar, tocar instrumento)">>, indoor |-> TRUE, energy |-> "media", duration_min |-> 20, cost |-> "gratis", time_of_day |-> "tarde"],
    [id |-> 18, tags |-> <<"Ciclismo">>, indoor |-> FALSE, energy |-> "alta", duration_min |-> 30, cost |-> "gratis", time_of_day |-> "manana"],
    [id |-> 19, tags |-> <<"Voluntariado", "Tecnologia (apps, redes sociales)">>, indoor |-> TRUE, energy |-> "baja", duration_min |-> 30, cost |-> "gratis", time_of_day |-> "tarde"],
    [id |-> 20, tags |-> <<"Apps de finanzas, salud, transporte", "Tecnologia (apps, redes sociales)">>, indoor |-> TRUE, energy |-> "baja", duration_min |-> 25, cost |-> "gratis", time_of_day |-> "tarde"],
    [id |-> 21, tags |-> <<"Redes sociales", "Fotografia y edicion digital">>, indoor |-> TRUE, energy |-> "baja", duration_min |-> 15, cost |-> "gratis", time_of_day |-> "tarde"],
    [id |-> 22, tags |-> <<"Juegos digitales (apps, consolas, PC)">>, indoor |-> TRUE, energy |-> "media", duration_min |-> 20, cost |-> "gratis", time_of_day |-> "noche"],
    [id |-> 23, tags |-> <<"Actividades con nietos / familia">>, indoor |-> TRUE, energy |-> "baja", duration_min |-> 20, cost |-> "gratis", time_of_day |-> "tarde"],
    [id |-> 24, tags |-> <<"Autocuidado (skincare, spa casero, etc.)">>, indoor |-> TRUE, energy |-> "baja", duration_min |-> 15, cost |-> "bajo", time_of_day |-> "noche"],
    [id |-> 25, tags |-> <<"Control de salud / chequeos">>, indoor |-> TRUE, energy |-> "baja", duration_min |-> 10, cost |-> "gratis", time_of_day |-> "manana"],
    [id |-> 26, tags |-> <<"Viajes y turismo local">>, indoor |-> FALSE, energy |-> "media", duration_min |-> 30, cost |-> "gratis", time_of_day |-> "tarde"],
    [id |-> 27, tags |-> <<"Natacion">>, indoor |-> FALSE, energy |-> "alta", duration_min |-> 30, cost |-> "medio", time_of_day |-> "tarde"],
    [id |-> 28, tags |-> <<"Pesca">>, indoor |-> FALSE, energy |-> "baja", duration_min |-> 90, cost |-> "medio", time_of_day |-> "manana"],
    [id |-> 29, tags |-> <<"Juegos de mesa / logica">>, indoor |-> TRUE, energy |-> "baja", duration_min |-> 40, cost |-> "bajo", time_of_day |-> "tarde"],
    [id |-> 30, tags |-> <<"Escucha / aprendizaje", "Tecnologia (apps, redes sociales)">>, indoor |-> TRUE, energy |-> "baja", duration_min |-> 25, cost |-> "gratis", time_of_day |-> "manana"],
    [id |-> 31, tags |-> <<"Escritura / lectura creativa">>, indoor |-> TRUE, energy |-> "baja", duration_min |-> 20, cost |-> "gratis", time_of_day |-> "tarde"],
    [id |-> 32, tags |-> <<"Naturaleza", "Actividades al aire libre">>, indoor |-> FALSE, energy |-> "baja", duration_min |-> 15, cost |-> "bajo", time_of_day |-> "manana"],
    [id |-> 33, tags |-> <<"Cocina creativa">>, indoor |-> TRUE, energy |-> "media", duration_min |-> 30, cost |-> "medio", time_of_day |-> "tarde"],
    [id |-> 34, tags |-> <<"Manualidades / DIY">>, indoor |-> TRUE, energy |-> "media", duration_min |-> 40, cost |-> "bajo", time_of_day |-> "tarde"],
    [id |-> 35, tags |-> <<"Reflexion personal / mindfulness">>, indoor |-> TRUE, energy |-> "baja", duration_min |-> 15, cost |-> "gratis", time_of_day |-> "noche"],
    [id |-> 36, tags |-> <<"Baile", "Cultura local">>, indoor |-> TRUE, energy |-> "media", duration_min |-> 25, cost |-> "gratis", time_of_day |-> "tarde"],
    [id |-> 37, tags |-> <<"Fotografia", "Caminatas / trekking">>, indoor |-> FALSE, energy |-> "media", duration_min |-> 45, cost |-> "gratis", time_of_day |-> "manana"],
    [id |-> 38, tags |-> <<"Juegos de logica / palabras">>, indoor |-> TRUE, energy |-> "baja", duration_min |-> 20, cost |-> "gratis", time_of_day |-> "manana"],
    [id |-> 39, tags |-> <<"Cultura local", "Manualidades / artesania">>, indoor |-> FALSE, energy |-> "media", duration_min |-> 60, cost |-> "medio", time_of_day |-> "tarde"],
    [id |-> 40, tags |-> <<"Cocina saludable">>, indoor |-> TRUE, energy |-> "media", duration_min |-> 20, cost |-> "bajo", time_of_day |-> "manana"]
  >>

Fisica == <<"F", "i_acute", "s", "i", "c", "a">>
Cognitiva == <<"C", "o", "g", "n", "i", "t", "i", "v", "a">>
Social == <<"S", "o", "c", "i", "a", "l">>

\* CATEGORY_BY_ID.get(activity_id)
CATEGORY_BY_ID(id) ==
  IF id \in {1, 2, 3, 9, 10, 17, 18, 24, 25, 27, 28, 32, 36, 37, 40} THEN Fisica
  ELSE IF id \in {4, 5, 6, 7, 8, 11, 14, 15, 16, 20, 22, 29, 30, 33, 34, 35, 38}
    THEN Cognitiva
  ELSE IF id \in {12, 13, 19, 21, 23, 26, 31, 39} THEN Social
  ELSE NoneStr

\* mutant: the combining marks are kept
_normalize_category_token_KeepMarks(value) ==
  IF ~Truthy(value) THEN NoneStr
  ELSE LET token == Lower(Strip(NFKD(value)))
       IN IF token # <<>> THEN token ELSE NoneStr

_normalize_category_token(value) ==
  IF ~Truthy(value) THEN NoneStr
  ELSE LET decomposed == NFKD(value)
           cleaned == RemoveCombining(decomposed)
           token == Lower(Strip(cleaned))
       IN IF token # <<>> THEN token ELSE NoneStr

\* the first tag that is non-blank after strip(), as a string of one word
RECURSIVE FirstTag(_)
FirstTag(tags) ==
  IF tags = <<>> THEN NoneStr
  ELSE IF Strip(<<Head(tags)>>) # <<>> THEN Strip(<<Head(tags)>>)
  ELSE FirstTag(Tail(tags))

get_category_for_activity(activity) ==
  LET explicit == IF "category" \in DOMAIN activity THEN activity.category ELSE NoneStr
      mapped == CATEGORY_BY_ID(activity.id)
  IN IF explicit # NoneStr /\ Strip(explicit) # <<>> THEN Strip(explicit)
     ELSE IF Truthy(mapped) THEN mapped
     ELSE FirstTag(activity.tags)

FALLBACK_ACTIVITY ==
  [id |-> -1, tags |-> <<>>, indoor |-> TRUE, energy |-> "baja", duration_min |-> 15,
   cost |-> "gratis", time_of_day |-> "cualquiera", suggested_time |-> "16:00",
   is_fallback |-> TRUE, category |-> NoneStr]

_energy_weight(level, energy) ==
  IF level = <<"desorientado">> THEN
    (CASE energy = "baja" -> 4 [] energy = "media" -> 1 [] energy = "alta" -> -3
       [] OTHER -> 0)
  ELSE IF level = <<"intermedio">> THEN
    (CASE energy = "baja" -> 2 [] energy = "media" -> 3 [] energy = "alta" -> 0
       [] OTHER -> 0)
  ELSE IF level = <<"planificado">> THEN
    (CASE energy = "baja" -> 0 [] energy = "media" -> 2 [] energy = "alta" -> 3
       [] OTHER -> 0)
  ELSE 0

\* mutant: a desorientado user's short activities lose the point instead of gaining it
_duration_weight_ShortPenalised(level, minutes) ==
  IF level = <<"desorientado">> THEN
    (IF minutes <= 30 THEN -1 ELSE IF minutes > 45 THEN -1 ELSE 0)
  ELSE IF level = <<"intermedio">> THEN
    (IF 20 <= minutes /\ minutes <= 60 THEN 1 ELSE 0)
  ELSE IF level = <<"planificado">> THEN
    (IF 30 <= minutes /\ minutes <= 90 THEN 1 ELSE 0)
  ELSE 0

_duration_weight(level, minutes) ==
  IF level = <<"desorientado">> THEN
    (IF minutes <= 30 THEN 1 ELSE IF minutes > 45 THEN -1 ELSE 0)
  ELSE IF level = <<"intermedio">> THEN
    (IF 20 <= minutes /\ minutes <= 60 THEN 1 ELSE 0)
  ELSE IF level = <<"planificado">> THEN
    (IF 30 <= minutes /\ minutes <= 90 THEN 1 ELSE 0)
  ELSE 0

_time_weight(pref, tod) ==
  IF pref = "None" \/ pref = "" \/ pref = "cualquiera" THEN 0
  ELSE IF pref = tod THEN 1 ELSE 0

\* names = {n.strip() for n in user_interests if n and n.strip()}
InterestNames(user_interests) ==
  {Strip(user_interests[i]) :
     i \in {k \in DOMAIN user_interests :
              Truthy(user_interests[k]) /\ Strip(user_interests[k]) # <<>>}}

\* allowed_categories; {} stands for None (no filter), as `allowed or None` makes it
AllowedCategories(categories) ==
  {_normalize_category_token(categories[i]) : i \in DOMAIN categories} \ {NoneStr}

\* len(names.intersection(tags))
Overlap(names, a) ==
  Cardinality({a.tags[i] : i \in DOMAIN a.tags} \cap {n[1] : n \in {m \in names : Len(m) = 1}})

PassesCategory(allowed_categories, a) ==
  allowed_categories = {} \/
    LET normalized == _normalize_category_token(get_category_for_activity(a))
    IN normalized # NoneStr /\ normalized \in allowed_categories

IsCandidate(names, allowed_categories, a) ==
  PassesCategory(allowed_categories, a) /\ Overlap(names, a) # 0

\* the score before the jitter is added (an integer)
BaseScore(names, preparation_level, time_of_day, a) ==
  Overlap(names, a) * 10
  + _energy_weight(preparation_level, a.energy)
  + _duration_weight(preparation_level, a.duration_min)
  + (IF a.cost = "gratis" THEN 1 ELSE 0)
  + _time_weight(time_of_day, a.time_of_day)
  + (IF preparation_level = <<"desorientado">> /\ a.indoor THEN 1 ELSE 0)

\* the candidates in catalog order
Candidates(names, allowed_categories) ==
  SelectSeq(ATEMPORAL_ACTIVITIES, LAMBDA a : IsCandidate(names, allowed_categories, a))

CandidateIds(user_interests, categories) ==
  LET c == Candidates(InterestNames(user_interests), AllowedCategories(categories))
  IN {c[i].id : i \in DOMAIN c}

\* scored: (score, activity) in catalog order; scores in tenths, jitter[id] is the
\* value random.uniform(-0.5, 0.5) added to that entry, in tenths.  The sum is a
\* double: the largest value uniform can return, 0.5 - 2^-53, added to an
\* integer score s >= 1 rounds to s + 0.5 exactly, so a jitter of 5 tenths is
\* an outcome of the addition although 0.5 itself is never drawn
Scored(names, allowed_categories, preparation_level, time_of_day, jitter) ==
  LET c == Candidates(names, allowed_categories)
  IN [i \in DOMAIN c |->
        [score |-> 10 * BaseScore(names, preparation_level, time_of_day, c[i])
                     + jitter[c[i].id],
         activity |-> c[i]]]

\* insert x behind every element whose score is not lower
RECURSIVE InsertDesc(_, _)
InsertDesc(sorted, x) ==
  IF sorted = <<>> THEN <<x>>
  ELSE IF Head(sorted).score >= x.score THEN <<Head(sorted)>> \o InsertDesc(Tail(sorted), x)
  ELSE <<x>> \o sorted

\* mutant: entries of equal score come out in the reverse of their order
RECURSIVE SortDesc_Unstable(_)
SortDesc_Unstable(s) ==
  IF s = <<>> THEN <<>>
  ELSE InsertDesc(SortDesc_Unstable(Tail(s)), Head(s))

\* list.sort(key=score, reverse=True): stable, descending
RECURSIVE SortDesc(_)
SortDesc(s) ==
  IF s = <<>> THEN <<>>
  ELSE InsertDesc(SortDesc(SubSeq(s, 1, Len(s) - 1)), s[Len(s)])

\* Python's s[:n]
SlicePrefix(s, n) ==
  IF n >= 0 THEN SubSeq(s, 1, IF n < Len(s) THEN n ELSE Len(s))
  ELSE SubSeq(s, 1, IF Len(s) + n > 0 THEN Len(s) + n ELSE 0)

suggest_time(tod) ==
  CASE tod = "manana" -> "10:00" [] tod = "tarde" -> "16:00" [] tod = "noche" -> "19:00"
    [] OTHER -> "16:00"

\* mutant: is_fallback is assigned instead of defaulted
prepare_Overwrite(activity) ==
  [id |-> activity.id,
   tags |-> activity.tags,
   indoor |-> activity.indoor,
   energy |-> activity.energy,
   duration_min |-> activity.duration_min,
   cost |-> activity.cost,
   time_of_day |-> activity.time_of_day,
   suggested_time |->
     IF "suggested_time" \in DOMAIN activity /\ activity.suggested_time # ""
     THEN activity.suggested_time ELSE suggest_time(activity.time_of_day),
   category |-> get_category_for_activity(activity),
   is_fallback |-> FALSE]

prepare(activity) ==
  [id |-> activity.id,
   tags |-> activity.tags,
   indoor |-> activity.indoor,
   energy |-> activity.energy,
   duration_min |-> activity.duration_min,
   cost |-> activity.cost,
   time_of_day |-> activity.time_of_day,
   suggested_time |->
     IF "suggested_time" \in DOMAIN activity /\ activity.suggested_time # ""
     THEN activity.suggested_time ELSE suggest_time(activity.time_of_day),
   category |-> get_category_for_activity(activity),
   is_fallback |-> IF "is_fallback" \in DOMAIN activity THEN activity.is_fallback ELSE FALSE]

\* mutant: the limit is used as given
EffectiveLimit_Raw(limit) == limit

EffectiveLimit(limit) == IF limit > 1 THEN limit ELSE 1

recommend_atemporales(user_interests, preparation_level, limit, categories, time_of_day, jitter) ==
  LET names == InterestNames(user_interests)
      allowed_categories == AllowedCategories(categories)
      scored == Scored(names, allowed_categories, preparation_level, time_of_day, jitter)
      sorted == SortDesc(scored)
      top == SlicePrefix(sorted, EffectiveLimit(limit))
  IN IF scored = <<>> THEN <<prepare(FALLBACK_ACTIVITY)>>
     ELSE [i \in DOMAIN top |-> prepare(top[i].activity)]

-----------------------------------------------------------------------------
(* Inputs of the ranking *)

MaxLimit == 3

fisica == <<"f", "i", "s", "i", "c", "a">>

InterestLists ==
  { <<>>,
    << <<"Caminatas / trekking">> >>,
    << <<"Caminatas / trekking">>, <<"Fotografia">> >>,
    << <<" ", "Baile", " ">> >>,
    << <<"Juegos de mesa / cartas">>, <<" ", "Cocina saludable">> >>,
    << <<"Tecnologia (apps, redes sociales)">> >>,
    << <<"Astronomia">> >>,
    << <<>>, <<" ">>, NoneStr >> }

PreparationInputs == {NoneStr, <<"desorientado">>, <<"intermedio">>, <<"planificado">>}

LimitInputs == (-1 .. MaxLimit) \cup {5}

CategoryFilters ==
  { <<>>,
    << fisica >>,
    << Fisica >>,
    << <<" ", "S", "O", "C", "I", "A", "L", " ">> >>,
    << Cognitiva, Social >>,
    << <<"o", "c", "i", "o">> >>,
    << <<>> >>,
    << <<" ">>, NoneStr >> }

TimeOfDayInputs == {"None", "manana", "cualquiera"}

\* values of random.uniform(-0.5, 0.5), in tenths
JitterValues == {-5, 4, 5}

\* GET /recommendations/atemporales: one call of recommend_atemporales on the
\* request's inputs; the jitter values are drawn during the call
Recommend ==
  /\ ~rec.called
  /\ \E jitter \in [CandidateIds(rec.user_interests, rec.categories) -> JitterValues] :
       rec' = [rec EXCEPT
                 !.called = TRUE,
                 !.jitter = jitter,
                 !.result = recommend_atemporales(rec.user_interests, rec.preparation_level,
                                                  rec.limit, rec.categories, rec.time_of_day,
                                                  jitter)]

RecIdle ==
  [called |-> FALSE, user_interests |-> <<>>, preparation_level |-> NoneStr, limit |-> 10,
   categories |-> <<>>, time_of_day |-> "None", jitter |-> <<>>, result |-> <<>>]

RemoteIdle ==
  [pc |-> "idle", n_texts |-> 0, retries |-> 0, attempt |-> 0, last_error |-> "None",
   seen |-> <<>>, slept |-> <<>>, result |-> [kind |-> "none", value |-> <<>>]]

NormIdle == [done |-> FALSE, value |-> <<"<None>">>]

HfIdle ==
  [pc |-> "idle", force_local |-> FALSE, force_remote |-> FALSE, token |-> FALSE,
   library |-> FALSE, model |-> "None", model_error |-> "None", loads |-> 0,
   ncalls |-> 0, n_texts |-> 0, error_before |-> "None", tried |-> <<>>,
   result |-> [kind |-> "none", value |-> <<>>]]

AiIdle ==
  /\ remote = RemoteIdle
  /\ hf = HfIdle /\ norm = NormIdle
  /\ req = [op |-> "none", interest_answers |-> <<>>, preparation_answer |-> NoneStr,
            mobility_answer |-> NoneStr, top_k |-> 5]
  /\ ai = [done |-> FALSE]
  /\ prepRefs = <<>>
  /\ levelOrder = <<"baja", "media", "alta">>

IdleThread ==
  [pc |-> "idle", op |-> "none", call |-> 0, force |-> FALSE, nested |-> FALSE, to_add |-> <<>>,
   pending |-> <<>>,
   start |-> 0, rows |-> <<>>, seeded |-> FALSE, wrote |-> FALSE, cleared |-> FALSE,
   sent |-> <<>>, provider |-> "none", sawEdit |-> 0, hit |-> FALSE,
   ret |-> [kind |-> "none", value |-> <<>>]]

NoEdit == [doc |-> 0, old |-> <<>>, new |-> <<>>, seen |-> FALSE, fresh |-> FALSE, count |-> 0]

NoDoc ==
  [exists |-> FALSE, preparation_level |-> NoneStr, mobility_level |-> NoneStr,
   interest_ids |-> <<>>]

HttpIdle ==
  [op |-> "none", preparation_level |-> NoneStr, mobility_level |-> NoneStr,
   store |-> FALSE, done |-> FALSE, result |-> [kind |-> "none", value |-> <<>>]]

PrefsIdle ==
  [called |-> FALSE, favorites |-> <<>>, history |-> <<>>, reports |-> <<>>,
   result |-> <<>>]

ProfileIdle == userDoc = NoDoc /\ http = HttpIdle /\ prefs = PrefsIdle

CacheIdle ==
  /\ store = <<>>
  /\ embMemo = <<>>
  /\ threads = [t \in {1, 2} |-> IdleThread]
  /\ ncalls = 0
  /\ lastEdit = NoEdit

InitRank ==
  /\ AiIdle
  /\ CacheIdle
  /\ ProfileIdle
  /\ rec \in [called : {FALSE}, user_interests : InterestLists,
           preparation_level : PreparationInputs, limit : LimitInputs,
           categories : CategoryFilters, time_of_day : TimeOfDayInputs,
           jitter : {<<>>}, result : {<<>>}]

NextRank == Recommend /\ UNCHANGED aiVars /\ UNCHANGED cacheVars /\ UNCHANGED profileVars

SpecRank == InitRank /\ [][NextRank]_vars

-----------------------------------------------------------------------------
(* Claims about the ranking *)

Max(a, b) == IF a >= b THEN a ELSE b

ResultIds == {rec.result[i].id : i \in DOMAIN rec.result}

\* some catalog entry passes the category filter and shares a tag with the interests
SomeEntryPasses ==
  \E i \in DOMAIN ATEMPORAL_ACTIVITIES :
    /\ Overlap(InterestNames(rec.user_interests), ATEMPORAL_ACTIVITIES[i]) >= 1
    /\ PassesCategory(AllowedCategories(rec.categories), ATEMPORAL_ACTIVITIES[i])

\* C1: every call of recommend_atemporales returns at least 1 and at most
\* max(1, limit) entries.
C1_LengthBounds ==
  rec.called => Len(rec.result) >= 1 /\ Len(rec.result) <= Max(1, rec.limit)

C1_Witness ==
  /\ rec.called
  /\ rec.limit = 2
  /\ Cardinality(DOMAIN rec.jitter) >= 3
  /\ Len(rec.result) = 2

\* C2: the result is exactly the one-element list holding the fallback entry
\* (id -1, is_fallback, category None) if and only if no catalog entry passes both
\* the category filter and the tag-overlap test; otherwise no returned entry is a
\* fallback.  Neither the category filter nor the time of day removes the fallback.
C2_FallbackIff ==
  rec.called =>
    /\ ~SomeEntryPasses <=>
         /\ Len(rec.result) = 1
         /\ rec.result[1].id = -1
         /\ rec.result[1].is_fallback
         /\ rec.result[1].category = NoneStr
    /\ SomeEntryPasses => \A i \in DOMAIN rec.result : ~rec.result[i].is_fallback

C2_Witness ==
  /\ rec.called
  /\ rec.categories = << fisica >>
  /\ rec.time_of_day = "manana"
  /\ InterestNames(rec.user_interests) # {}
  /\ rec.result = <<prepare(FALLBACK_ACTIVITY)>>

\* the normalized tokens of the filter values (None for a blank value)
FilterTokens == {_normalize_category_token(rec.categories[i]) : i \in DOMAIN rec.categories}

\* a catalog entry was a ranking candidate: it is returned, or the limit cut the list
WasCandidate(a) == a.id \in ResultIds \/ Len(rec.result) = Max(1, rec.limit)

FilterRespected(tokens) ==
  /\ \A i \in DOMAIN rec.result :
       ~rec.result[i].is_fallback =>
         _normalize_category_token(rec.result[i].category) \in tokens
  /\ \A i \in DOMAIN ATEMPORAL_ACTIVITIES :
       LET a == ATEMPORAL_ACTIVITIES[i]
       IN /\ Overlap(InterestNames(rec.user_interests), a) >= 1
          /\ _normalize_category_token(get_category_for_activity(a)) \in tokens
          => WasCandidate(a)

FisicaFilter ==
  rec.categories = << fisica >> =>
    /\ \A i \in DOMAIN rec.result :
         ~rec.result[i].is_fallback => rec.result[i].category = Fisica
    /\ \A i \in DOMAIN ATEMPORAL_ACTIVITIES :
         LET a == ATEMPORAL_ACTIVITIES[i]
         IN /\ Overlap(InterestNames(rec.user_interests), a) >= 1
            /\ get_category_for_activity(a) = Fisica
            => WasCandidate(a)

\* C3 as stated: whenever a category filter is given, every returned non-fallback
\* entry has the normalized token of some filter value, and every catalog entry with
\* a tag overlap and a token of the filter is a candidate; "fisica" admits "Fisica"
\* with the accent and rejects the other categories.
C3_FilterGiven ==
  rec.called /\ rec.categories # <<>> =>
    FilterRespected(FilterTokens) /\ FisicaFilter

\* C3 amended: the same, when at least one filter value has a non-empty normalized
\* token; a filter whose values are all blank is no filter.
C3_FilterNonBlank ==
  rec.called /\ FilterTokens \ {NoneStr} # {} =>
    FilterRespected(FilterTokens \ {NoneStr}) /\ FisicaFilter

C3_Witness ==
  /\ rec.called
  /\ rec.categories = << fisica >>
  /\ \E i \in DOMAIN rec.result : rec.result[i].category = Fisica
  /\ rec.limit = 3
  /\ Len(rec.result) = 2

C3_BlankFilterIsNoFilter ==
  rec.called /\ rec.categories # <<>> /\ FilterTokens \ {NoneStr} = {} =>
    (rec.result = <<prepare(FALLBACK_ACTIVITY)>>) = ~
      (\E i \in DOMAIN ATEMPORAL_ACTIVITIES :
         Overlap(InterestNames(rec.user_interests), ATEMPORAL_ACTIVITIES[i]) >= 1)

-----------------------------------------------------------------------------
(* domain_ai.py: the semantic classifier *)

(* Vectors have two components, in hundredths; a dot product is in units of   *)
(* 1/10000.  The result of a call that may raise is [kind, value]: kind is    *)
(* "ok" or the name of the exception raised.                                   *)

ConfigError == "HuggingFaceConfigError"
RequestError == "HuggingFaceRequestError"

Ok(v) == [kind |-> "ok", value |-> v]
Raise(e) == [kind |-> e, value |-> <<>>]

\* MIN_INTEREST_SCORE = 0.33
MIN_INTEREST_SCORE == 3300

RECURSIVE _dot(_, _)
_dot(a, b) ==
  IF a = <<>> \/ b = <<>> THEN 0 ELSE Head(a) * Head(b) + _dot(Tail(a), Tail(b))

\* [a.strip() for a in answers if a and a.strip()]
CleanAnswers(answers) ==
  LET kept == SelectSeq(answers, LAMBDA a : Truthy(a) /\ Strip(a) # <<>>)
  IN [i \in DOMAIN kept |-> Strip(kept[i])]

RECURSIVE MaxOf(_)
MaxOf(s) ==
  IF Len(s) = 1 THEN s[1]
  ELSE LET m == MaxOf(Tail(s)) IN IF Head(s) >= m THEN Head(s) ELSE m

\* mutant: only the first answer is compared with the row
BestScore_FirstAnswer(vec, answer_vectors) ==
  IF answer_vectors = <<>> THEN -10000
  ELSE _dot(vec, answer_vectors[1])

\* best = max(sims) if sims else -1.0
BestScore(vec, answer_vectors) ==
  IF answer_vectors = <<>> THEN -10000
  ELSE MaxOf([i \in DOMAIN answer_vectors |-> _dot(vec, answer_vectors[i])])

\* round(float(score), 3): thousandths, from units of 1/10000, half to even
Round3(x) ==
  LET q == x \div 10
      r == x % 10
  IN IF r < 5 THEN q
     ELSE IF r > 5 THEN q + 1
     ELSE IF q % 2 = 0 THEN q ELSE q + 1

Suggestion(score, row) ==
  [id |-> row.id, name |-> row.name, category |-> row.category, score |-> Round3(score)]

\* mutant: the loop does not stop at a row below the threshold
RECURSIVE SuggestionLoop_NoThreshold(_, _)
SuggestionLoop_NoThreshold(rest, suggestions) ==
  IF rest = <<>> THEN suggestions
  ELSE SuggestionLoop_NoThreshold(Tail(rest),
                                  Append(suggestions,
                                         Suggestion(Head(rest).score, Head(rest).activity)))

\* the loop over scored[: max(1, top_k)]
RECURSIVE SuggestionLoop(_, _)
SuggestionLoop(rest, suggestions) ==
  IF rest = <<>> THEN suggestions
  ELSE IF Head(rest).score < MIN_INTEREST_SCORE /\ suggestions # <<>> THEN suggestions
  ELSE SuggestionLoop(Tail(rest),
                      Append(suggestions, Suggestion(Head(rest).score, Head(rest).activity)))

\* mutant: a row below the threshold ends the loop even when nothing is accepted yet,
\* and no best row is kept
_interest_suggestions_Threshold(answers, top_k, embedded, loaded) ==
  LET cleaned == CleanAnswers(answers)
  IN IF cleaned = <<>> THEN Ok(<<>>)
     ELSE IF embedded.kind # "ok" THEN Raise(embedded.kind)
     ELSE IF Len(embedded.value) # Len(cleaned) THEN Raise(RequestError)
     ELSE IF loaded.kind # "ok" THEN Raise(loaded.kind)
     ELSE
       LET catalog_vectors == loaded.value
           scored == SortDesc([i \in DOMAIN catalog_vectors |->
                       [score |-> BestScore(catalog_vectors[i].vec, embedded.value),
                        activity |-> catalog_vectors[i].row]])
           top == SlicePrefix(scored, Max(1, top_k))
           passed == SelectSeq(top, LAMBDA x : x.score >= MIN_INTEREST_SCORE)
       IN Ok([i \in DOMAIN passed |-> Suggestion(passed[i].score, passed[i].activity)])

\* embedded: what embed_texts(query_payloads) does; loaded: what
\* load_interest_embeddings() does (called only when the first succeeded)
_interest_suggestions(answers, top_k, embedded, loaded) ==
  LET cleaned == CleanAnswers(answers)
  IN IF cleaned = <<>> THEN Ok(<<>>)
     ELSE IF embedded.kind # "ok" THEN Raise(embedded.kind)
     ELSE IF Len(embedded.value) # Len(cleaned) THEN Raise(RequestError)
     ELSE IF loaded.kind # "ok" THEN Raise(loaded.kind)
     ELSE
       LET catalog_vectors == loaded.value
           scored == SortDesc([i \in DOMAIN catalog_vectors |->
                       [score |-> BestScore(catalog_vectors[i].vec, embedded.value),
                        activity |-> catalog_vectors[i].row]])
           looped == SuggestionLoop(SlicePrefix(scored, Max(1, top_k)), <<>>)
       IN Ok(IF looped = <<>> /\ scored # <<>>
             THEN <<Suggestion(scored[1].score, scored[1].activity)>>
             ELSE looped)

-----------------------------------------------------------------------------
(* domain_preparation.py, domain_mobility.py: the level validators *)

ValueError == "ValueError"

ALLOWED_LEVELS == {<<"planificado">>, <<"intermedio">>, <<"desorientado">>}

ALLOWED_MOBILITY_LEVELS == {<<"baja">>, <<"media">>, <<"alta">>}

validate_level(level) ==
  IF level = NoneStr THEN Ok(NoneStr)
  ELSE IF level \notin ALLOWED_LEVELS THEN Raise(ValueError)
  ELSE Ok(level)

validate_mobility_level(level) ==
  IF level = NoneStr THEN Ok(NoneStr)
  ELSE LET cleaned == Lower(Strip(level))
       IN IF cleaned = <<>> THEN Ok(NoneStr)
          ELSE IF cleaned \notin ALLOWED_MOBILITY_LEVELS THEN Raise(ValueError)
          ELSE Ok(cleaned)

-----------------------------------------------------------------------------
(* domain_ai.py: preparation and mobility classification *)

\* the levels of PREPARATION_REFERENCES, one per reference phrase, in dict order
PREPARATION_REFERENCES ==
  << <<"planificado">>, <<"planificado">>, <<"intermedio">>, <<"intermedio">>,
     <<"desorientado">>, <<"desorientado">> >>

NoMemo == <<>>

\* _preparation_reference_vectors(): memo is the lru_cache entry (NoMemo when empty),
\* embedded is what embed_texts(texts) does when the body runs
_preparation_reference_vectors(memo, embedded) ==
  IF memo # NoMemo THEN Ok(memo)
  ELSE IF embedded.kind # "ok" THEN Raise(embedded.kind)
  ELSE IF Len(embedded.value) # Len(PREPARATION_REFERENCES) THEN Raise(RequestError)
  ELSE Ok([i \in DOMAIN PREPARATION_REFERENCES |->
             [level |-> PREPARATION_REFERENCES[i], vec |-> embedded.value[i]]])

\* the loop over the reference vectors: the first strictly best one wins
RECURSIVE BestReference(_, _, _, _)
BestReference(refs, answer_vec, best_level, best_score) ==
  IF refs = <<>> THEN [level |-> best_level, score |-> best_score]
  ELSE LET score == _dot(answer_vec, Head(refs).vec)
       IN IF score > best_score
          THEN BestReference(Tail(refs), answer_vec, Head(refs).level, score)
          ELSE BestReference(Tail(refs), answer_vec, best_level, best_score)

PreparationText(answer) == IF answer = NoneStr THEN <<>> ELSE Strip(answer)

\* whether _classify_preparation reaches _preparation_reference_vectors()
ReachesReferences(answer, embedded) ==
  PreparationText(answer) # <<>> /\ embedded.kind = "ok" /\ embedded.value # <<>>

\* the vectors of each level added up (each level has two phrases)
LevelSums(refs) ==
  [i \in 1 .. Len(refs) \div 2 |->
     [level |-> refs[2 * i - 1].level,
      vec |-> <<refs[2 * i - 1].vec[1] + refs[2 * i].vec[1],
                refs[2 * i - 1].vec[2] + refs[2 * i].vec[2]>>]]

\* mutant: the levels are compared by the average score of their phrases
_classify_preparation_LevelAverage(answer, embedded, references) ==
  IF PreparationText(answer) = <<>> THEN Ok(NoneStr)
  ELSE IF embedded.kind # "ok" THEN Raise(embedded.kind)
  ELSE IF embedded.value = <<>> THEN Ok(NoneStr)
  ELSE IF references.kind # "ok" THEN Raise(references.kind)
  ELSE LET best == BestReference(LevelSums(references.value), embedded.value[1],
                                 NoneStr, -20000)
       IN IF best.level = NoneStr THEN Ok(NoneStr)
          ELSE IF best.score < 5000 THEN Ok(NoneStr)
          ELSE validate_level(best.level)

\* embedded: what embed_texts([query]) does; references: what
\* _preparation_reference_vectors() does
_classify_preparation(answer, embedded, references) ==
  IF PreparationText(answer) = <<>> THEN Ok(NoneStr)
  ELSE IF embedded.kind # "ok" THEN Raise(embedded.kind)
  ELSE IF embedded.value = <<>> THEN Ok(NoneStr)
  ELSE IF references.kind # "ok" THEN Raise(references.kind)
  ELSE LET best == BestReference(references.value, embedded.value[1], NoneStr, -10000)
       IN IF best.level = NoneStr THEN Ok(NoneStr)
          ELSE IF best.score < 2500 THEN Ok(NoneStr)
          ELSE validate_level(best.level)

\* MOBILITY_KEYWORDS[level], in the order of the list
MOBILITY_KEYWORDS(level) ==
  CASE level = "baja" ->
      << <<"movilidad", " ", "baja">>,
         <<"movilidad", " ", "reducida">>,
         <<"movilidad", " ", "limitada">>,
         <<"dificultad", " ", "para", " ", "moverme">>,
         <<"me", " ", "cuesta", " ", "caminar">>,
         <<"me", " ", "canso", " ", "rapido">>,
         <<"uso", " ", "baston">>,
         <<"uso", " ", "andador">>,
         <<"necesito", " ", "ayuda">>,
         <<"dolor", " ", "al", " ", "caminar">>,
         <<"salgo", " ", "poco">>,
         <<"poca", " ", "movilidad">> >>
    [] level = "media" ->
      << <<"movilidad", " ", "media">>,
         <<"movilidad", " ", "moderada">>,
         <<"algo", " ", "limitada">>,
         <<"me", " ", "canso", " ", "un", " ", "poco">>,
         <<"distancias", " ", "cortas">>,
         <<"regular">> >>
    [] level = "alta" ->
      << <<"movilidad", " ", "alta">>,
         <<"movilidad", " ", "buena">>,
         <<"sin", " ", "problemas", " ", "para", " ", "moverme">>,
         <<"sin", " ", "problema", " ", "para", " ", "moverme">>,
         <<"camino", " ", "bien">>,
         <<"sin", " ", "limitaciones">>,
         <<"soy", " ", "activo">>,
         <<"soy", " ", "activa">>,
         <<"hago", " ", "ejercicio">>,
         <<"movilidad", " ", "plena">> >>

\* MOBILITY_EXACT_MATCHES.get(token), "" when the token is no key
MOBILITY_EXACT_MATCHES(token) ==
  CASE token = <<"baja">> -> "baja"
    [] token = <<"limitada">> -> "baja"
    [] token = <<"reducida">> -> "baja"
    [] token = <<"media">> -> "media"
    [] token = <<"moderada">> -> "media"
    [] token = <<"normal">> -> "media"
    [] token = <<"alta">> -> "alta"
    [] token = <<"buena">> -> "alta"
    [] token = <<"excelente">> -> "alta"
    [] OTHER -> ""

\* _normalize_text
_normalize_text(value) == Strip(Lower(RemoveCombining(NFKD(value))))

\* str.split(): the maximal runs of atoms that are not whitespace
RECURSIVE SplitWords(_, _)
SplitWords(s, word) ==
  IF s = <<>> THEN (IF word = <<>> THEN {} ELSE {word})
  ELSE IF IsSpace(Head(s))
    THEN (IF word = <<>> THEN {} ELSE {word}) \cup SplitWords(Tail(s), <<>>)
  ELSE SplitWords(Tail(s), Append(word, Head(s)))

\* keyword in normalized
Contains(text, keyword) ==
  \E i \in 0 .. Len(text) - Len(keyword) :
    SubSeq(text, i + 1, i + Len(keyword)) = keyword

RECURSIVE KeywordScore(_, _)
KeywordScore(keywords, normalized) ==
  IF keywords = <<>> THEN 0
  ELSE (IF Contains(normalized, Head(keywords)) THEN 2 ELSE 0)
       + KeywordScore(Tail(keywords), normalized)

\* the first level of the iteration order whose phrase "movilidad <level>" occurs
RECURSIVE FirstPhrase(_, _)
FirstPhrase(levels, normalized) ==
  IF levels = <<>> THEN ""
  ELSE IF Contains(normalized, <<"movilidad", " ", Head(levels)>>) THEN Head(levels)
  ELSE FirstPhrase(Tail(levels), normalized)

\* max(scores, key=...): the first key of the dict's order with the highest score
RECURSIVE FirstMax(_, _, _)
FirstMax(levels, normalized, best) ==
  IF levels = <<>> THEN best
  ELSE IF best = "" \/ KeywordScore(MOBILITY_KEYWORDS(Head(levels)), normalized)
                        > KeywordScore(MOBILITY_KEYWORDS(best), normalized)
    THEN FirstMax(Tail(levels), normalized, Head(levels))
  ELSE FirstMax(Tail(levels), normalized, best)

MobilityTokens(answer) ==
  IF answer = NoneStr THEN {} ELSE SplitWords(_normalize_text(Strip(answer)), <<>>)

\* the tokens that are keys of MOBILITY_EXACT_MATCHES
MobilityHits(answer) == {t \in MobilityTokens(answer) : MOBILITY_EXACT_MATCHES(t) # ""}

\* mutant: the exact-match dictionary is not consulted
_classify_mobility_NoExact(answer, first_hit, levels) ==
  LET text == IF answer = NoneStr THEN <<>> ELSE Strip(answer)
      normalized == _normalize_text(text)
      phrase == FirstPhrase(levels, normalized)
      best_level == FirstMax(levels, normalized, "")
  IN IF text = <<>> THEN Ok(NoneStr)
     ELSE IF normalized = <<>> THEN Ok(NoneStr)
     ELSE IF phrase # "" THEN validate_mobility_level(<<phrase>>)
     ELSE IF KeywordScore(MOBILITY_KEYWORDS(best_level), normalized) > 0
       THEN validate_mobility_level(<<best_level>>)
     ELSE Ok(NoneStr)

\* first_hit: the key that the iteration over the token set meets first (any of the
\* hits: a set of strings has no fixed order); levels: the iteration order of the
\* set MOBILITY_LEVELS in this process
_classify_mobility(answer, first_hit, levels) ==
  LET text == IF answer = NoneStr THEN <<>> ELSE Strip(answer)
      normalized == _normalize_text(text)
      phrase == FirstPhrase(levels, normalized)
      best_level == FirstMax(levels, normalized, "")
  IN IF text = <<>> THEN Ok(NoneStr)
     ELSE IF normalized = <<>> THEN Ok(NoneStr)
     ELSE IF MobilityHits(answer) # {}
       THEN validate_mobility_level(<<MOBILITY_EXACT_MATCHES(first_hit)>>)
     ELSE IF phrase # "" THEN validate_mobility_level(<<phrase>>)
     ELSE IF KeywordScore(MOBILITY_KEYWORDS(best_level), normalized) > 0
       THEN validate_mobility_level(<<best_level>>)
     ELSE Ok(NoneStr)

\* mutant: an error of a step is swallowed and the field is left unset
analyze_questionnaire_Partial(interests, preparation, mobility) ==
  Ok([interests |-> IF interests.kind = "ok" THEN interests.value ELSE <<>>,
      preparation_level |-> IF preparation.kind = "ok" THEN preparation.value ELSE NoneStr,
      mobility_level |-> IF mobility.kind = "ok" THEN mobility.value ELSE NoneStr])

\* the three results are those of the three steps, each run only when the steps
\* before it returned
analyze_questionnaire(interests, preparation, mobility) ==
  IF interests.kind # "ok" THEN Raise(interests.kind)
  ELSE IF preparation.kind # "ok" THEN Raise(preparation.kind)
  ELSE IF mobility.kind # "ok" THEN Raise(mobility.kind)
  ELSE Ok([interests |-> interests.value,
           preparation_level |-> preparation.value,
           mobility_level |-> mobility.value])

-----------------------------------------------------------------------------
(* The classifier's requests and what the embedding provider does *)

MaxTopK == 3

NotCalled == [kind |-> "not called", value |-> <<>>]

AnswerVecs == {<<100, 0>>, <<28, 96>>, <<-60, -80>>}

\* embed_texts on n texts: n vectors, one vector too few, or an error
EmbedOutcomes(n) ==
  {Ok(v) : v \in [1 .. n -> AnswerVecs]}
    \cup (IF n >= 1 THEN {Ok([i \in 1 .. n - 1 |-> <<100, 0>>])} ELSE {})
    \cup {Raise(ConfigError), Raise(RequestError)}

\* embed_texts on the six reference phrases
ReferenceOutcomes ==
  { Ok(<< <<100, 0>>, <<96, 28>>, <<60, 80>>, <<80, 60>>, <<0, 100>>, <<28, 96>> >>),
    Ok(<< <<0, 100>>, <<0, 100>>, <<0, 100>>, <<-100, 0>>, <<0, 100>>, <<-60, 80>> >>),
    Ok(<< <<100, 0>>, <<-100, 0>>, <<60, 80>>, <<60, 80>>, <<0, 100>>, <<0, 100>> >>),
    Ok(<< <<100, 0>>, <<96, 28>>, <<60, 80>>, <<80, 60>>, <<0, 100>> >>),
    Raise(ConfigError), Raise(RequestError) }

InterestCatalogRows ==
  << [row |-> [id |-> 6, name |-> "Caminatas / trekking", category |-> "Deporte y Bienestar"],
      vec |-> <<100, 0>>],
     [row |-> [id |-> 1, name |-> "Pintura / Dibujo", category |-> "Creatividad y Arte"],
      vec |-> <<60, 80>>],
     [row |-> [id |-> 17, name |-> "Club de lectura", category |-> "Aprendizaje"],
      vec |-> <<0, 100>>],
     [row |-> [id |-> 9, name |-> "Baile", category |-> "Deporte y Bienestar"],
      vec |-> <<-28, 96>>] >>

\* load_interest_embeddings(): the rows that have a vector, or an error
LoadOutcomes ==
  { Ok(InterestCatalogRows), Ok(SubSeq(InterestCatalogRows, 1, 1)),
    Ok(SubSeq(InterestCatalogRows, 2, 3)),
    Raise(ConfigError), Raise(RequestError) }

InterestAnswerLists ==
  { <<>>,
    << <<" ">>, NoneStr >>,
    << <<"me gusta caminar">> >>,
    << <<" ", "pintar">>, <<"leer">> >>,
    << <<>>, <<"bailar", " ">> >> }

PreparationAnswers == {NoneStr, <<" ">>, <<" ", "no se que hacer">>}

MobilityAnswers ==
  { NoneStr,
    <<" ">>,
    <<"tengo", " ", "movilidad", " ", "baja">>,
    <<"camino", " ", "bien", ",", " ", "sin", " ", "limitaciones">>,
    <<"hola">>,
    <<"movilidad", " ", "algo", " ", "limitada">>,
    <<"movilidad", " ", "baja", ",", " ", "movilidad", " ", "alta", ".">>,
    <<"BAJA", " ", "o", " ", "alta">>,
    <<"me", " ", "canso", " ", "un", " ", "poco", ",", " ", "uso", " ", "baston">>,
    <<"salgo", " ", "poco", ",", " ", "uso", " ", "andador", " ", "y", " ", "camino", " ", "bien">>,
    <<"uso", " ", "baston", " ", "y", " ", "uso", " ", "baston", ",", " ", "camino", " ", "bien">> }

TopKInputs == -1 .. MaxTopK

Requests ==
  [op : {"suggest"}, interest_answers : InterestAnswerLists,
   preparation_answer : {NoneStr}, mobility_answer : {NoneStr}, top_k : TopKInputs]
  \cup
  [op : {"preparation"}, interest_answers : {<<>>},
   preparation_answer : PreparationAnswers, mobility_answer : {NoneStr}, top_k : {5}]
  \cup
  [op : {"mobility"}, interest_answers : {<<>>},
   preparation_answer : {NoneStr}, mobility_answer : MobilityAnswers, top_k : {5}]
  \cup
  [op : {"analyze"},
   interest_answers : {<<>>, << <<"me gusta caminar">> >>},
   preparation_answer : {NoneStr, <<" ", "no se que hacer">>},
   mobility_answer : {NoneStr, <<"tengo", " ", "movilidad", " ", "baja">>, <<"hola">>},
   top_k : {1, MaxTopK}]

Permutations3 ==
  {p \in [1 .. 3 -> {"baja", "media", "alta"}] : \A i, j \in 1 .. 3 : i # j => p[i] # p[j]}

\* what embed_texts does for the interest answers, when it is called
EmbedChoices(answers) ==
  IF CleanAnswers(answers) = <<>> THEN {NotCalled}
  ELSE EmbedOutcomes(Len(CleanAnswers(answers)))

\* what load_interest_embeddings does, when it is called
LoadChoices(answers, embedded) ==
  IF embedded.kind = "ok" /\ Len(embedded.value) = Len(CleanAnswers(answers))
  THEN LoadOutcomes ELSE {NotCalled}

\* what embed_texts does for the preparation answer, when it is called
PrepEmbedChoices(answer) ==
  IF PreparationText(answer) = <<>> THEN {NotCalled}
  ELSE EmbedOutcomes(1) \cup {Ok(<<>>)}

\* what embed_texts does for the reference phrases, when it is called
ReferenceChoices(answer, embedded) ==
  IF ReachesReferences(answer, embedded) /\ prepRefs = NoMemo
  THEN ReferenceOutcomes ELSE {NotCalled}

\* the key of the exact-match dictionary that the loop over the token set meets first
FirstHitChoices(answer) ==
  IF MobilityHits(answer) = {} THEN {<<>>} ELSE MobilityHits(answer)

\* the lru_cache entry after _classify_preparation ran
MemoAfter(answer, embedded, references) ==
  IF ReachesReferences(answer, embedded) /\ references.kind = "ok"
  THEN references.value ELSE prepRefs

NotRun == [kind |-> "not run", value |-> <<>>]

AiCall(e, l, pe, re, fh, interests, preparation, mobility, result) ==
  [done |-> TRUE, embedded |-> e, loaded |-> l, prep_embedded |-> pe, ref_embedded |-> re,
   first_hit |-> fh, interests |-> interests, preparation |-> preparation,
   mobility |-> mobility, result |-> result]

\* an earlier request classified a preparation answer: the reference vectors are
\* memoized for the rest of the process
WarmReferences ==
  /\ ~ai.done
  /\ prepRefs = NoMemo
  /\ \E e \in ReferenceOutcomes :
       /\ _preparation_reference_vectors(NoMemo, e).kind = "ok"
       /\ prepRefs' = _preparation_reference_vectors(NoMemo, e).value
  /\ UNCHANGED <<rec, req, ai, levelOrder, remote, hf, norm>> /\ UNCHANGED cacheVars /\ UNCHANGED profileVars

Suggest ==
  /\ req.op = "suggest"
  /\ ~ai.done
  /\ \E e \in EmbedChoices(req.interest_answers) :
       \E l \in LoadChoices(req.interest_answers, e) :
         LET r == _interest_suggestions(req.interest_answers, req.top_k, e, l)
         IN ai' = AiCall(e, l, NotCalled, NotCalled, <<>>, r, NotRun, NotRun, r)
  /\ UNCHANGED <<rec, req, prepRefs, levelOrder, remote, hf, norm>> /\ UNCHANGED cacheVars /\ UNCHANGED profileVars

ClassifyPreparation ==
  /\ req.op = "preparation"
  /\ ~ai.done
  /\ \E pe \in PrepEmbedChoices(req.preparation_answer) :
       \E re \in ReferenceChoices(req.preparation_answer, pe) :
         LET refs == _preparation_reference_vectors(prepRefs, re)
             r == _classify_preparation(req.preparation_answer, pe, refs)
         IN /\ ai' = AiCall(NotCalled, NotCalled, pe, re, <<>>, NotRun, r, NotRun, r)
            /\ prepRefs' = MemoAfter(req.preparation_answer, pe, refs)
  /\ UNCHANGED <<rec, req, levelOrder, remote, hf, norm>> /\ UNCHANGED cacheVars /\ UNCHANGED profileVars

ClassifyMobility ==
  /\ req.op = "mobility"
  /\ ~ai.done
  /\ \E fh \in FirstHitChoices(req.mobility_answer) :
       LET r == _classify_mobility(req.mobility_answer, fh, levelOrder)
       IN ai' = AiCall(NotCalled, NotCalled, NotCalled, NotCalled, fh, NotRun, NotRun, r, r)
  /\ UNCHANGED <<rec, req, prepRefs, levelOrder, remote, hf, norm>> /\ UNCHANGED cacheVars /\ UNCHANGED profileVars

\* POST /ai/questionnaire: analyze_questionnaire; a step runs only when the steps
\* before it returned
Analyze ==
  /\ req.op = "analyze"
  /\ ~ai.done
  /\ \E e \in EmbedChoices(req.interest_answers) :
       \E l \in LoadChoices(req.interest_answers, e) :
         LET interests == _interest_suggestions(req.interest_answers, req.top_k, e, l)
             ran2 == interests.kind = "ok"
         IN \E pe \in (IF ran2 THEN PrepEmbedChoices(req.preparation_answer)
                       ELSE {NotCalled}) :
              \E re \in (IF ran2 THEN ReferenceChoices(req.preparation_answer, pe)
                         ELSE {NotCalled}) :
                LET refs == _preparation_reference_vectors(prepRefs, re)
                    preparation ==
                      IF ran2 THEN _classify_preparation(req.preparation_answer, pe, refs)
                      ELSE NotRun
                    ran3 == ran2 /\ preparation.kind = "ok"
                IN \E fh \in (IF ran3 THEN FirstHitChoices(req.mobility_answer)
                              ELSE {<<>>}) :
                     LET mobility ==
                           IF ran3
                           THEN _classify_mobility(req.mobility_answer, fh, levelOrder)
                           ELSE NotRun
                     IN /\ ai' = AiCall(e, l, pe, re, fh, interests, preparation, mobility,
                                        analyze_questionnaire(interests, preparation,
                                                              mobility))
                        /\ prepRefs' = IF ran2
                                       THEN MemoAfter(req.preparation_answer, pe, refs)
                                       ELSE prepRefs
  /\ UNCHANGED <<rec, req, levelOrder, remote, hf, norm>> /\ UNCHANGED cacheVars /\ UNCHANGED profileVars

InitAI ==
  /\ rec = RecIdle
  /\ CacheIdle
  /\ ProfileIdle
  /\ req \in Requests
  /\ ai = [done |-> FALSE]
  /\ prepRefs = NoMemo
  /\ levelOrder \in Permutations3
  /\ remote = RemoteIdle
  /\ hf = HfIdle /\ norm = NormIdle

NextAI ==
  \/ WarmReferences
  \/ Suggest
  \/ ClassifyPreparation
  \/ ClassifyMobility
  \/ Analyze

SpecAI == InitAI /\ [][NextAI]_vars

-----------------------------------------------------------------------------
(* Claims about the classifier *)

ProviderErrors == {ConfigError, RequestError}

\* C4: with at least one non-blank answer and a catalog of at least one row with a
\* vector, _interest_suggestions never returns an empty list, for every top_k and
\* also when every similarity is below 0.33.
C4_NeverEmpty ==
  /\ ai.done
  /\ req.op = "suggest"
  /\ CleanAnswers(req.interest_answers) # <<>>
  /\ ai.loaded.kind = "ok"
  /\ ai.loaded.value # <<>>
  /\ ai.result.kind = "ok"
  => ai.result.value # <<>>

C4_Witness ==
  /\ ai.done
  /\ req.op = "suggest"
  /\ req.top_k = 3
  /\ ai.loaded.kind = "ok"
  /\ Len(ai.loaded.value) >= 3
  /\ ai.result.kind = "ok"
  /\ Len(ai.result.value) = 1
  /\ ai.result.value[1].score < 330

\* how each provider call of the classifier call ended ("not called" when not made)
ProviderKinds ==
  {ai.embedded.kind, ai.loaded.kind, ai.prep_embedded.kind, ai.ref_embedded.kind}

\* C5: analyze_questionnaire raises the provider's error kind when the provider
\* fails during interest suggestion or preparation classification, and then returns
\* nothing; when it returns, the result has the three fields.  Mobility
\* classification calls no provider and raises no provider error.
C5_AllOrNothing ==
  /\ ai.done /\ req.op = "analyze" =>
       /\ \A k \in ProviderKinds : k \in ProviderErrors => ai.result.kind = k
       /\ ai.result.kind = "ok" =>
            DOMAIN ai.result.value = {"interests", "preparation_level", "mobility_level"}
       /\ ai.result.kind # "ok" => ai.result.value = <<>>
       /\ ai.mobility.kind \notin ProviderErrors
  /\ ai.done /\ req.op = "mobility" =>
       /\ ai.result.kind \notin ProviderErrors
       /\ ProviderKinds = {"not called"}

C5_Witness ==
  /\ ai.done
  /\ req.op = "analyze"
  /\ req.mobility_answer = <<"tengo", " ", "movilidad", " ", "baja">>
  /\ ai.interests.kind = "ok"
  /\ ai.interests.value # <<>>
  /\ ai.prep_embedded.kind = RequestError
  /\ ai.result.kind = RequestError

-----------------------------------------------------------------------------
(* services/catalog_embeddings.py, services/interests_catalog.py: the catalog   *)
(* embedding cache.  A document of interests_catalog is a record; its vector   *)
(* is <<>> and its signature and text are None until they are written.  The    *)
(* signature is the pair of the model id and the passage (sha1 taken as        *)
(* injective); the provider's vector of a passage is a function of the passage.*)

MaxCalls == 2

MaxEdits == 1

\* DEFAULT_MODEL_ID, get_model_id()
ModelId == "intfloat/multilingual-e5-small"

\* the first entry of two categories of BASE_CATALOG
BASE_CATALOG ==
  << [category |-> <<"Creatividad y Arte">>, name |-> <<"Pintura / Dibujo">>],
     [category |-> <<"Deporte y Bienestar">>, name |-> <<"Caminatas / trekking">>] >>

NewDoc(id, name, category) ==
  [id |-> id, name |-> name, category |-> category,
   vector |-> <<>>, signature |-> NoneStr, text |-> NoneStr]

_passage_payload(name, category) ==
  LET main == Strip(name)
  IN <<"passage: ">> \o
       (IF Truthy(category) THEN Strip(category) \o <<" - ">> \o main ELSE main)

_signature(payload) == <<ModelId, "||">> \o payload

\* the vector the provider computes for a passage
EmbedVector(payload) == <<"vector of">> \o payload

\* the batch of ensure_catalog_firestore: a document for every base name that no
\* document has
RECURSIVE SeedRows(_, _, _)
SeedRows(base, existing_names, next_id) ==
  IF base = <<>> THEN <<>>
  ELSE IF Head(base).name \in existing_names
    THEN SeedRows(Tail(base), existing_names, next_id)
  ELSE <<NewDoc(next_id, Head(base).name, Head(base).category)>>
         \o SeedRows(Tail(base), existing_names, next_id + 1)

\* batch.set(doc_ref, {...}) without merge for every document of the batch: a
\* document that exists under that id is replaced
RECURSIVE SetDocuments(_, _)
SetDocuments(st, docs) ==
  IF docs = <<>> THEN st
  ELSE SetDocuments(IF Head(docs).id \in DOMAIN st
                    THEN [st EXCEPT ![Head(docs).id] = Head(docs)]
                    ELSE Append(st, Head(docs)),
                    Tail(docs))

\* the documents that ensure_catalog_firestore adds for a snapshot
ToAdd(st) ==
  SeedRows(BASE_CATALOG, {st[i].name : i \in DOMAIN st} \ {<<>>, NoneStr}, Len(st) + 1)

\* the whole function when nothing else writes between its snapshot and its commit
ensure_catalog_firestore(st) == SetDocuments(st, ToAdd(st))

DocName(doc) == IF Truthy(doc.name) THEN Strip(doc.name) ELSE <<>>

DocPayload(doc) == _passage_payload(DocName(doc), doc.category)

\* mutant: a row that has a vector is never recomputed
NeedsEmbedding_VectorOnly(doc, force) ==
  DocName(doc) # <<>> /\ (force \/ doc.vector = <<>>)

\* mutant: every row with a name is recomputed, as if force were set
NeedsEmbedding_Always(doc, force) ==
  DocName(doc) # <<>>

\* force or not has_vector or not matches_signature, for a row with a name
NeedsEmbedding(doc, force) ==
  /\ DocName(doc) # <<>>
  /\ \/ force
     \/ doc.vector = <<>>
     \/ doc.signature # _signature(DocPayload(doc))

\* pending_refs, payloads, signatures (and, once embedded, the vectors)
PendingRows(st, force) ==
  LET need == SelectSeq(st, LAMBDA doc : NeedsEmbedding(doc, force))
  IN [i \in DOMAIN need |->
        [ref |-> need[i].id, payload |-> DocPayload(need[i]),
         sig |-> _signature(DocPayload(need[i])), vec |-> <<>>]]

\* chunk_size = 300
chunk_size == 300

\* mutant: the batch writes the vector alone
RECURSIVE CommitChunk_VectorOnly(_, _)
CommitChunk_VectorOnly(st, chunk) ==
  IF chunk = <<>> THEN st
  ELSE CommitChunk_VectorOnly([st EXCEPT ![Head(chunk).ref] =
                                 [@ EXCEPT !.vector = Head(chunk).vec]],
                              Tail(chunk))

\* batch.set(ref, {...}, merge=True) for every row of the chunk, then commit
RECURSIVE CommitChunk(_, _)
CommitChunk(st, chunk) ==
  IF chunk = <<>> THEN st
  ELSE CommitChunk([st EXCEPT ![Head(chunk).ref] =
                      [@ EXCEPT !.vector = Head(chunk).vec,
                                !.signature = Head(chunk).sig,
                                !.text = Head(chunk).payload]],
                   Tail(chunk))

\* the strings that are sort keys, in the order Python compares them
StringOrder ==
  << <<>>, <<"Caminatas / trekking">>, <<"Creatividad y Arte">>, <<"Deporte y Bienestar">>,
     <<"Pintura / Dibujo">>, <<"Yoga">> >>

StringRank(s) ==
  LET k == IF s = NoneStr THEN <<>> ELSE s
  IN CHOOSE i \in DOMAIN StringOrder : StringOrder[i] = k

\* (category or "", name or "") <= of two rows
KeyLeq(a, b) ==
  \/ StringRank(a.row.category) < StringRank(b.row.category)
  \/ /\ StringRank(a.row.category) = StringRank(b.row.category)
     /\ StringRank(a.row.name) <= StringRank(b.row.name)

RECURSIVE InsertAsc(_, _)
InsertAsc(sorted, x) ==
  IF sorted = <<>> THEN <<x>>
  ELSE IF KeyLeq(Head(sorted), x) THEN <<Head(sorted)>> \o InsertAsc(Tail(sorted), x)
  ELSE <<x>> \o sorted

RECURSIVE SortAsc(_)
SortAsc(s) ==
  IF s = <<>> THEN <<>> ELSE InsertAsc(SortAsc(SubSeq(s, 1, Len(s) - 1)), s[Len(s)])

\* the body of load_interest_embeddings after the freshness check: the rows that
\* have a name and a vector, sorted by category and name
LoadRows(st) ==
  LET have == SelectSeq(st, LAMBDA doc : DocName(doc) # <<>> /\ doc.vector # <<>>)
  IN SortAsc([i \in DOMAIN have |->
                [row |-> [id |-> have[i].id, name |-> DocName(have[i]),
                          category |-> have[i].category],
                 vec |-> have[i].vector]])

\* the outcomes of the provider's batch call: the vectors of all the passages,
\* one vector too few, or one of its two errors
ProviderOutcomes == {"ok", "short", ConfigError, RequestError}

WithVectors(pending) ==
  [i \in DOMAIN pending |-> [pending[i] EXCEPT !.vec = EmbedVector(pending[i].payload)]]

\* the call of a thread ends with a result or an exception
Returned(th, result) ==
  [th EXCEPT !.pc = "idle", !.pending = <<>>, !.rows = <<>>, !.start = 0, !.ret = result]

\* ensure_catalog_embeddings returns: to its caller load_interest_embeddings, or
\* to the caller of the thread
EnsureReturns(th) ==
  IF th.nested THEN [th EXCEPT !.pc = "l_read", !.pending = <<>>, !.start = 0]
  ELSE Returned(th, Ok(<<>>))

\* mutant: the count of the vectors is not compared, zip() pairs what there is
EmbedResult_NoCountCheck(th, outcome) ==
  LET t1 == [th EXCEPT !.sent = th.pending, !.provider = outcome]
  IN IF outcome = "ok"
       THEN [t1 EXCEPT !.pc = "write", !.pending = WithVectors(th.pending)]
     ELSE IF outcome = "short"
       THEN [t1 EXCEPT !.pc = "write",
                       !.pending = WithVectors(SubSeq(th.pending, 1, Len(th.pending) - 1))]
     ELSE Returned(t1, Raise(outcome))

\* vectors = embed_texts(payloads); the check of len(vectors)
EmbedResult(th, outcome) ==
  LET t1 == [th EXCEPT !.sent = th.pending, !.provider = outcome]
  IN IF outcome = "ok"
       THEN [t1 EXCEPT !.pc = "write", !.pending = WithVectors(th.pending)]
     ELSE IF outcome = "short"
       THEN Returned(t1, Raise(RequestError))
     ELSE Returned(t1, Raise(outcome))

\* a request calls ensure_catalog_embeddings(force)
StartEnsure(t, force) ==
  /\ threads[t].pc = "idle"
  /\ ncalls < MaxCalls
  /\ ncalls' = ncalls + 1
  /\ threads' = [threads EXCEPT ![t] =
                   [IdleThread EXCEPT !.pc = "seed", !.op = "ensure", !.force = force,
                                      !.call = ncalls + 1]]
  /\ UNCHANGED <<store, embMemo, lastEdit>>
  /\ UNCHANGED restVars

\* a request calls load_interest_embeddings(): lru_cache answers from its entry,
\* or the body runs and calls ensure_catalog_embeddings()
StartLoad(t) ==
  /\ threads[t].pc = "idle"
  /\ ncalls < MaxCalls
  /\ ncalls' = ncalls + 1
  /\ threads' = [threads EXCEPT ![t] =
                   IF embMemo # <<>>
                     THEN [IdleThread EXCEPT !.op = "load", !.hit = TRUE, !.ret = Ok(embMemo),
                                             !.call = ncalls + 1]
                   ELSE [IdleThread EXCEPT !.pc = "seed", !.op = "load", !.nested = TRUE,
                                           !.call = ncalls + 1]]
  /\ UNCHANGED <<store, embMemo, lastEdit>>
  /\ UNCHANGED restVars

\* ensure_catalog_firestore(), up to the loop over BASE_CATALOG: the snapshot and
\* the documents that the batch will set
SeedSnapshot(t) ==
  /\ threads[t].pc = "seed"
  /\ LET to_add == ToAdd(store)
     IN threads' = [threads EXCEPT ![t] =
                      IF to_add = <<>> THEN [@ EXCEPT !.pc = "read"]
                      ELSE [@ EXCEPT !.pc = "seed_commit", !.to_add = to_add]]
  /\ UNCHANGED <<store, embMemo, ncalls, lastEdit>>
  /\ UNCHANGED restVars

\* ensure_catalog_firestore(): batch.commit()
SeedCommit(t) ==
  /\ threads[t].pc = "seed_commit"
  /\ store' = SetDocuments(store, threads[t].to_add)
  /\ threads' = [threads EXCEPT ![t] =
                   [@ EXCEPT !.pc = "read", !.to_add = <<>>, !.seeded = (store' # store)]]
  /\ UNCHANGED <<embMemo, ncalls, lastEdit>>
  /\ UNCHANGED restVars

\* the snapshot of the collection and the loop that collects the pending rows
ReadCatalog(t) ==
  /\ threads[t].pc = "read"
  /\ LET th == [threads[t] EXCEPT !.sawEdit = IF lastEdit.seen THEN 0 ELSE lastEdit.count]
         pending == PendingRows(store, th.force)
     IN threads' = [threads EXCEPT ![t] =
                      IF store = <<>> \/ pending = <<>> THEN EnsureReturns(th)
                      ELSE [th EXCEPT !.pc = "embed", !.pending = pending]]
  /\ lastEdit' = [lastEdit EXCEPT !.seen = TRUE]
  /\ UNCHANGED <<store, embMemo, ncalls>>
  /\ UNCHANGED restVars

Embed(t) ==
  /\ threads[t].pc = "embed"
  /\ \E outcome \in ProviderOutcomes :
       threads' = [threads EXCEPT ![t] = EmbedResult(@, outcome)]
  /\ UNCHANGED <<store, embMemo, ncalls, lastEdit>>
  /\ UNCHANGED restVars

Min(a, b) == IF a <= b THEN a ELSE b

\* one round of the loop over the chunks: a batch of at most chunk_size rows
WriteChunk(t) ==
  /\ threads[t].pc = "write"
  /\ LET th == threads[t]
         chunk == SubSeq(th.pending, th.start + 1,
                         Min(th.start + chunk_size, Len(th.pending)))
         next == th.start + chunk_size
     IN /\ store' = CommitChunk(store, chunk)
        /\ threads' = [threads EXCEPT ![t] =
                         [th EXCEPT !.wrote = th.wrote \/ chunk # <<>>,
                                    !.start = IF next < Len(th.pending) THEN next ELSE 0,
                                    !.pc = IF next < Len(th.pending) THEN "write" ELSE "clear"]]
  /\ UNCHANGED <<embMemo, ncalls, lastEdit>>
  /\ UNCHANGED restVars

\* mutant: the entry of lru_cache survives the call
ClearCache_Keep(t) ==
  /\ threads[t].pc = "clear"
  /\ embMemo' = embMemo
  /\ threads' = [threads EXCEPT ![t] = EnsureReturns([@ EXCEPT !.cleared = TRUE])]
  /\ UNCHANGED <<store, ncalls, lastEdit>>
  /\ UNCHANGED restVars

\* load_interest_embeddings.cache_clear()
ClearCache(t) ==
  /\ threads[t].pc = "clear"
  /\ embMemo' = <<>>
  /\ threads' = [threads EXCEPT ![t] = EnsureReturns([@ EXCEPT !.cleared = TRUE])]
  /\ UNCHANGED <<store, ncalls, lastEdit>>
  /\ UNCHANGED restVars

\* the second snapshot, of load_interest_embeddings, and its sort
LoadRead(t) ==
  /\ threads[t].pc = "l_read"
  /\ LET embeddings == LoadRows(store)
     IN threads' = [threads EXCEPT ![t] =
                      IF embeddings = <<>> THEN Returned(@, Raise(RequestError))
                      ELSE [@ EXCEPT !.pc = "l_return", !.rows = embeddings]]
  /\ UNCHANGED <<store, embMemo, ncalls, lastEdit>>
  /\ UNCHANGED restVars

\* the function returns and lru_cache keeps the result, unless another call has
\* filled the entry meanwhile
LoadReturn(t) ==
  /\ threads[t].pc = "l_return"
  /\ embMemo' = IF embMemo = <<>> THEN threads[t].rows ELSE embMemo
  /\ threads' = [threads EXCEPT ![t] = Returned(@, Ok(threads[t].rows))]
  /\ UNCHANGED <<store, ncalls, lastEdit>>
  /\ UNCHANGED restVars

NameInputs == { <<"Yoga">>, <<"Pintura / Dibujo", " ">>, <<" ">> }

IsFresh(doc) == doc.vector # <<>> /\ doc.signature = _signature(DocPayload(doc))

\* the name of a document of interests_catalog is edited in the store
EditName(d, name) ==
  /\ lastEdit.count < MaxEdits
  /\ d \in DOMAIN store
  /\ name # store[d].name
  /\ lastEdit' = [doc |-> d, old |-> store[d].name, new |-> name, seen |-> FALSE,
                  fresh |-> IsFresh(store[d]), count |-> lastEdit.count + 1]
  /\ store' = [store EXCEPT ![d].name = name]
  /\ UNCHANGED <<embMemo, threads, ncalls>>
  /\ UNCHANGED restVars

Threads == {1, 2}

InitCache == rec = RecIdle /\ AiIdle /\ CacheIdle /\ ProfileIdle

\* requests are served concurrently and the store is edited at any moment
NextCache ==
  \/ \E t \in Threads, force \in BOOLEAN : StartEnsure(t, force)
  \/ \E t \in Threads : StartLoad(t)
  \/ \E t \in Threads : SeedSnapshot(t)
  \/ \E t \in Threads : SeedCommit(t)
  \/ \E t \in Threads : ReadCatalog(t)
  \/ \E t \in Threads : Embed(t)
  \/ \E t \in Threads : WriteChunk(t)
  \/ \E t \in Threads : ClearCache(t)
  \/ \E t \in Threads : LoadRead(t)
  \/ \E t \in Threads : LoadReturn(t)
  \/ \E d \in DOMAIN store, name \in NameInputs : EditName(d, name)

SpecCache == InitCache /\ [][NextCache]_vars

AllIdle == \A t \in Threads : threads[t].pc = "idle"

Quiet(t) == \A u \in Threads \ {t} : threads[u].pc = "idle"

\* one request at a time, and edits between the requests
NextCacheSeq ==
  \/ \E t \in Threads, force \in BOOLEAN : Quiet(t) /\ StartEnsure(t, force)
  \/ \E t \in Threads : Quiet(t) /\ StartLoad(t)
  \/ \E t \in Threads : Quiet(t) /\ SeedSnapshot(t)
  \/ \E t \in Threads : Quiet(t) /\ SeedCommit(t)
  \/ \E t \in Threads : Quiet(t) /\ ReadCatalog(t)
  \/ \E t \in Threads : Quiet(t) /\ Embed(t)
  \/ \E t \in Threads : Quiet(t) /\ WriteChunk(t)
  \/ \E t \in Threads : Quiet(t) /\ ClearCache(t)
  \/ \E t \in Threads : Quiet(t) /\ LoadRead(t)
  \/ \E t \in Threads : Quiet(t) /\ LoadReturn(t)
  \/ \E d \in DOMAIN store, name \in NameInputs : AllIdle /\ EditName(d, name)

SpecCacheSeq == InitCache /\ [][NextCacheSeq]_vars

-----------------------------------------------------------------------------
(* Claims about the catalog embedding cache.                                   *)

EditedDoc == store[lastEdit.doc]

SignatureOf(name) == _signature(_passage_payload(name, EditedDoc.category))

\* the call of thread t is the first one to read the catalog after the last edit
SawLastEdit(t) ==
  /\ lastEdit.doc # 0
  /\ threads[t].sawEdit = lastEdit.count
  /\ ~threads[t].force

\* the rows a thread sends to the provider, before and after the batch call
SentRows(t) == IF threads[t].pc = "embed" THEN threads[t].pending ELSE threads[t].sent

SentRefs(t) == {SentRows(t)[i].ref : i \in DOMAIN SentRows(t)}

EnsureHasReturned(t) ==
  \/ threads[t].pc \in {"l_read", "l_return"}
  \/ threads[t].pc = "idle" /\ threads[t].ret.kind = "ok"

\* the name given by the edit is not blank and differs from the old one by more
\* than surrounding white space, and the row was up to date when it was edited
EffectiveRename ==
  /\ lastEdit.doc # 0
  /\ lastEdit.fresh
  /\ Strip(lastEdit.new) # <<>>
  /\ Strip(lastEdit.new) # Strip(lastEdit.old)

NoWriteInProgress ==
  \A t \in Threads : threads[t].pc \notin {"write", "clear"}

\* C7: once the calls of ensure_catalog_embeddings that wrote have completed, the
\* list that load_interest_embeddings returns from its cache holds, for every
\* row, the vector that is in the store, in every interleaving of the calls.
C7_CacheReflectsStore ==
  NoWriteInProgress =>
    \A i \in DOMAIN embMemo : embMemo[i].vec = store[embMemo[i].row.id].vector

-----------------------------------------------------------------------------
(* routers/preparation.py, routers/ai.py, schemas_preparation.py: the          *)
(* boundaries where a preparation level or a mobility level enters or leaves.  *)
(* A level is a string of one word per atom; a field a document does not have  *)
(* is None.                                                                    *)

HTTPException(status_code) == [kind |-> "HTTPException", value |-> status_code]

\* try: x = validate(...) except ValueError: x = None
ExceptValueError(validated) ==
  IF validated.kind = "ok" THEN validated.value ELSE NoneStr

\* Optional[Literal[...]] of PreparationUpdate: FastAPI answers 422 otherwise
PreparationUpdate(payload) ==
  /\ payload.preparation_level \in ALLOWED_LEVELS \cup {NoneStr}
  /\ payload.mobility_level \in ALLOWED_MOBILITY_LEVELS \cup {NoneStr}

StoredLevels(doc) ==
  [preparation_level |-> ExceptValueError(validate_level(doc.preparation_level)),
   mobility_level |-> ExceptValueError(validate_mobility_level(doc.mobility_level))]

get_preparation(doc) ==
  IF ~doc.exists THEN Ok([preparation_level |-> NoneStr, mobility_level |-> NoneStr])
  ELSE Ok(StoredLevels(doc))

\* the response and the document of the user after the request
update_preparation(payload, doc) ==
  LET level == validate_level(payload.preparation_level)
      mobility == validate_mobility_level(payload.mobility_level)
      written == [doc EXCEPT !.exists = TRUE,
                    !.preparation_level = IF level.value # NoneStr THEN level.value ELSE @,
                    !.mobility_level = IF mobility.value # NoneStr THEN mobility.value ELSE @]
  IN IF ~PreparationUpdate(payload) THEN [response |-> HTTPException(422), doc |-> doc]
     ELSE IF level.kind # "ok" THEN [response |-> HTTPException(400), doc |-> doc]
     ELSE IF mobility.kind # "ok" THEN [response |-> HTTPException(400), doc |-> doc]
     ELSE IF level.value = NoneStr /\ mobility.value = NoneStr
       THEN [response |-> HTTPException(400), doc |-> doc]
     ELSE [response |-> Ok(StoredLevels(written)), doc |-> written]

MOBILITY_LEVELS == ALLOWED_MOBILITY_LEVELS

SuggestedIds(interests) ==
  LET with_id == SelectSeq(interests, LAMBDA i : i.id # 0)
  IN [k \in DOMAIN with_id |-> with_id[k].id]

\* run_questionnaire once analyze_questionnaire has returned or raised (no
\* session_id): the response and the document of the user after the request
run_questionnaire(result, store_flag, doc) ==
  IF result.kind = ConfigError THEN [response |-> HTTPException(503), doc |-> doc]
  ELSE IF result.kind = RequestError THEN [response |-> HTTPException(502), doc |-> doc]
  ELSE IF result.kind # "ok" THEN [response |-> HTTPException(500), doc |-> doc]
  ELSE
    LET interests == result.value.interests
        preparation_level == result.value.preparation_level
        mobility_level == ExceptValueError(validate_mobility_level(result.value.mobility_level))
        ids == SuggestedIds(interests)
        applied == store_flag /\ (ids # <<>> \/ Truthy(preparation_level)
                                   \/ mobility_level \in MOBILITY_LEVELS)
        written == [doc EXCEPT !.exists = TRUE,
                      !.interest_ids = IF ids # <<>> THEN ids ELSE @,
                      !.preparation_level =
                         IF Truthy(preparation_level) THEN preparation_level ELSE @,
                      !.mobility_level =
                         IF mobility_level \in MOBILITY_LEVELS THEN mobility_level ELSE @]
    IN [response |-> Ok([interests |-> interests,
                         preparation_level |-> preparation_level,
                         mobility_level |-> IF mobility_level \in MOBILITY_LEVELS
                                            THEN mobility_level ELSE NoneStr,
                         applied |-> applied]),
        doc |-> IF applied THEN written ELSE doc]

LevelInputs ==
  { NoneStr, <<>>, <<" ">>, <<"planificado">>, <<"intermedio">>, <<"desorientado">>,
    <<"baja">>, <<"media">>, <<"alta">>, <<" ", "Baja", " ">>, <<"ALTA">>,
    <<"Planificado">>, <<"experto">> }

\* the documents of users: written by this program, or holding a field that
\* another writer left
StoredDocs ==
  {NoDoc} \cup
  [exists : {TRUE},
   preparation_level : {NoneStr, <<"planificado">>, <<"experto">>},
   mobility_level : {NoneStr, <<"alta">>, <<" ", "Baja", " ">>, <<"rapida">>, <<>>},
   interest_ids : {<<>>}]

ValidateLevel ==
  /\ http.op = "validate_level" /\ ~http.done
  /\ http' = [http EXCEPT !.done = TRUE, !.result = validate_level(http.preparation_level)]
  /\ UNCHANGED <<userDoc, prefs, rec>> /\ UNCHANGED aiVars /\ UNCHANGED cacheVars

ValidateMobilityLevel ==
  /\ http.op = "validate_mobility_level" /\ ~http.done
  /\ http' = [http EXCEPT !.done = TRUE,
                          !.result = validate_mobility_level(http.mobility_level)]
  /\ UNCHANGED <<userDoc, prefs, rec>> /\ UNCHANGED aiVars /\ UNCHANGED cacheVars

GetPreparation ==
  /\ http.op = "get" /\ ~http.done
  /\ http' = [http EXCEPT !.done = TRUE, !.result = get_preparation(userDoc)]
  /\ UNCHANGED <<userDoc, prefs, rec>> /\ UNCHANGED aiVars /\ UNCHANGED cacheVars

UpdatePreparation ==
  /\ http.op = "put" /\ ~http.done
  /\ LET after == update_preparation(http, userDoc)
     IN /\ http' = [http EXCEPT !.done = TRUE, !.result = after.response]
        /\ userDoc' = after.doc
  /\ UNCHANGED <<prefs, rec>> /\ UNCHANGED aiVars /\ UNCHANGED cacheVars

RunQuestionnaire ==
  /\ http.op = "questionnaire" /\ ~http.done
  /\ ai.done
  /\ LET after == run_questionnaire(ai.result, http.store, userDoc)
     IN /\ http' = [http EXCEPT !.done = TRUE, !.result = after.response]
        /\ userDoc' = after.doc
  /\ UNCHANGED <<prefs, rec>> /\ UNCHANGED aiVars /\ UNCHANGED cacheVars

HttpRequest(op, preparation_levels, mobility_levels, store_flags) ==
  [op : {op}, preparation_level : preparation_levels, mobility_level : mobility_levels,
   store : store_flags, done : {FALSE}, result : {HttpIdle.result}]

InitLevels ==
  /\ rec = RecIdle /\ CacheIdle /\ prefs = PrefsIdle
  /\ \/ /\ http \in HttpRequest("validate_level", LevelInputs, {NoneStr}, {FALSE})
        /\ userDoc = NoDoc /\ AiIdle
     \/ /\ http \in HttpRequest("validate_mobility_level", {NoneStr}, LevelInputs, {FALSE})
        /\ userDoc = NoDoc /\ AiIdle
     \/ /\ http \in HttpRequest("get", {NoneStr}, {NoneStr}, {FALSE})
        /\ userDoc \in StoredDocs /\ AiIdle
     \/ /\ http \in HttpRequest("put", LevelInputs, LevelInputs, {FALSE})
        /\ userDoc \in StoredDocs /\ AiIdle
     \/ /\ http \in HttpRequest("questionnaire", {NoneStr}, {NoneStr}, BOOLEAN)
        /\ userDoc \in {NoDoc, [NoDoc EXCEPT !.exists = TRUE, !.mobility_level = <<"alta">>]}
        /\ req \in {r \in Requests : r.op = "analyze"}
        /\ ai = [done |-> FALSE]
        /\ prepRefs = NoMemo
        /\ levelOrder \in Permutations3
        /\ remote = RemoteIdle
        /\ hf = HfIdle /\ norm = NormIdle

NextLevels ==
  \/ ValidateLevel
  \/ ValidateMobilityLevel
  \/ GetPreparation
  \/ UpdatePreparation
  \/ Analyze
  \/ RunQuestionnaire

SpecLevels == InitLevels /\ [][NextLevels]_vars

\* what the rule of the boundaries asks of one level: None passes, a member of
\* the enum is returned unchanged, anything else is an error
StrictOutcome(input, allowed, kind, emitted) ==
  IF input = NoneStr THEN kind = "ok" /\ emitted = NoneStr
  ELSE IF input \in allowed THEN kind = "ok" /\ emitted = input
  ELSE kind # "ok"

\* C9: at validate_level, validate_mobility_level, the GET and PUT handlers of
\* the profile and the questionnaire endpoint, None passes as None, a member of
\* the enum is returned unchanged, and any other value is an error: it is never
\* turned into None or into another level.
C9_StrictAtEveryBoundary ==
  http.done =>
    /\ http.op = "validate_level" =>
         StrictOutcome(http.preparation_level, ALLOWED_LEVELS,
                       http.result.kind, http.result.value)
    /\ http.op = "validate_mobility_level" =>
         StrictOutcome(http.mobility_level, ALLOWED_MOBILITY_LEVELS,
                       http.result.kind, http.result.value)
    /\ http.op \in {"get", "put"} /\ http.result.kind = "ok" =>
         /\ StrictOutcome(userDoc.preparation_level, ALLOWED_LEVELS,
                          "ok", http.result.value.preparation_level)
         /\ StrictOutcome(userDoc.mobility_level, ALLOWED_MOBILITY_LEVELS,
                          "ok", http.result.value.mobility_level)
    /\ http.op = "put" /\ ~PreparationUpdate(http) => http.result.kind # "ok"
    /\ http.op = "questionnaire" /\ http.result.kind = "ok" =>
         StrictOutcome(ai.result.value.mobility_level, ALLOWED_MOBILITY_LEVELS,
                       "ok", http.result.value.mobility_level)

-----------------------------------------------------------------------------
(* services/category_preferences.py: the category weights learned from the     *)
(* favorites, the history and the reports of a user.  A weight is an integer   *)
(* number of millionths; a document is a record whose absent fields are None   *)
(* (category), 0 (activityId) or <<>> (tags); the id of a document is an       *)
(* automatic id, which names no activity.  The field rating holds the value    *)
(* as Python writes it: "None", "True", an int ("6"), a float ("4.7", "nan",   *)
(* "inf") or a string that is no number ("abc").                               *)

MaxFavorites == 5

MaxHistory == 4

\* math.log(n) in millionths, for n = 1 .. 9
LogTable == <<0, 693147, 1098612, 1386294, 1609438, 1791759, 1945910, 2079442, 2197225>>

Log(n) == LogTable[n]

_favorite_weight(count) == Min(8000000, 3000000 + (25 * Log(count + 1)) \div 10)

_history_weight(count) == Min(5000000, 1500000 + (15 * Log(count + 1)) \div 10)

_penalty_weight(count) == Min(9000000, 3000000 + 3 * Log(count + 1))

_rating_weight_adjustment(rating) ==
  IF rating >= 5 THEN 3000000
  ELSE IF rating = 4 THEN 1500000
  ELSE IF rating = 3 THEN 500000
  ELSE IF rating = 2 THEN -1500000
  ELSE -3000000

\* mutant: the token keeps the blanks around it
CategoryToken_NoStrip(value) ==
  IF ~Truthy(value) THEN NoneStr
  ELSE LET normalized == NFKD(value)
           cleaned == RemoveCombining(normalized)
           token == Lower(cleaned)
       IN IF token # <<>> THEN token ELSE NoneStr

\* _normalize_category_token of this module: lower(), then strip()
CategoryToken(value) ==
  IF ~Truthy(value) THEN NoneStr
  ELSE LET normalized == NFKD(value)
           cleaned == RemoveCombining(normalized)
           token == Strip(Lower(cleaned))
       IN IF token # <<>> THEN token ELSE NoneStr

\* _atemporal_numeric_id of an int, or of None (0)
_atemporal_numeric_id(raw) == raw

\* _ATEMPORAL_BY_ID.get(numeric_id): the entry, or <<>> when there is none
_ATEMPORAL_BY_ID(numeric_id) ==
  LET found == SelectSeq(ATEMPORAL_ACTIVITIES, LAMBDA a : a.id = numeric_id)
  IN IF found = <<>> THEN <<>> ELSE found[Len(found)]

_resolve_category(data) ==
  LET entry == _ATEMPORAL_BY_ID(_atemporal_numeric_id(data.activityId))
      category == IF entry = <<>> THEN NoneStr ELSE get_category_for_activity(entry)
  IN IF data.category # NoneStr /\ Strip(data.category) # <<>> THEN Strip(data.category)
     ELSE IF data.activityId # 0 /\ Truthy(category) THEN category
     ELSE FirstTag(data.tags)

\* int(raw) where it returns; a float is truncated
IntOf(raw) ==
  CASE raw = "0" -> 0 [] raw = "1" -> 1 [] raw = "2" -> 2 [] raw = "3" -> 3
    [] raw = "4" -> 4 [] raw = "5" -> 5 [] raw = "6" -> 6 [] raw = "4.7" -> 4

\* int(raw) raises OverflowError, which "except (TypeError, ValueError)" lets through
Overflows(data) == data.rating = "inf"

\* the rating of 1 .. 5, or None (0): None and 0 are falsy and the other two
\* keys are absent, a bool is refused, int() of "abc" and of nan raises ValueError
_resolve_rating(data) ==
  IF data.rating \in {"None", "0"} THEN 0
  ELSE IF data.rating = "True" THEN 0
  ELSE IF data.rating \in {"abc", "nan"} THEN 0
  ELSE IF IntOf(data.rating) \in 1 .. 5 THEN IntOf(data.rating)
  ELSE 0

EntryToken(data) == CategoryToken(_resolve_category(data))

\* the Counter and the labels that the loops over the snapshots build
CategoryCounts(rows) ==
  LET tokens == {EntryToken(rows[i]) : i \in DOMAIN rows} \ {NoneStr}
      First(token) == CHOOSE i \in DOMAIN rows :
                        /\ EntryToken(rows[i]) = token
                        /\ \A j \in 1 .. i - 1 : EntryToken(rows[j]) # token
  IN [counts |-> [t \in tokens |->
                    Cardinality({i \in DOMAIN rows : EntryToken(rows[i]) = t})],
      labels |-> [t \in tokens |-> _resolve_category(rows[First(t)])]]

\* the snapshots of the query where(field == "atemporal").limit(limit)
Atemporal(rows, limit) ==
  LET found == SelectSeq(rows, LAMBDA r : r.type = "atemporal")
  IN SubSeq(found, 1, Min(Len(found), limit))

history_limit == 120

_favorite_category_counts(favorites) == CategoryCounts(Atemporal(favorites, Len(favorites)))

_history_category_counts(history, limit) == CategoryCounts(Atemporal(history, limit))

RECURSIVE SumAdjustments(_, _)
SumAdjustments(rows, token) ==
  IF rows = <<>> THEN 0
  ELSE (IF EntryToken(Head(rows)) = token
          THEN _rating_weight_adjustment(_resolve_rating(Head(rows))) ELSE 0)
       + SumAdjustments(Tail(rows), token)

\* the loop resolves the rating of every snapshot first, so one rating that
\* overflows ends the call with the error
_history_feedback_weights(history, limit) ==
  LET snapshots == Atemporal(history, limit)
      rated == SelectSeq(SelectSeq(snapshots, LAMBDA r : ~Overflows(r)),
                         LAMBDA r : _resolve_rating(r) # 0 /\ EntryToken(r) # NoneStr)
      labelled == CategoryCounts(rated)
  IN IF \E i \in DOMAIN snapshots : Overflows(snapshots[i])
     THEN Raise("OverflowError")
     ELSE [counts |-> [t \in DOMAIN labelled.counts |-> SumAdjustments(rated, t)],
           labels |-> labelled.labels]

\* the rows of list_reports: category, activity_type and a numeric activity_id
_reported_category_counts(reports) ==
  LET token(i) == CategoryToken(reports[i].category)
      tokens == {token(i) : i \in DOMAIN reports} \ {NoneStr}
      First(t) == CHOOSE i \in DOMAIN reports :
                    token(i) = t /\ \A j \in 1 .. i - 1 : token(j) # t
  IN [counts |-> [t \in tokens |-> Cardinality({i \in DOMAIN reports : token(i) = t})],
      labels |-> [t \in tokens |-> reports[First(t)].category],
      reported_ids |->
        {_atemporal_numeric_id(reports[i].activity_id) :
           i \in {k \in DOMAIN reports : /\ reports[k].activity_type = "atemporal"
                                         /\ reports[k].activity_id # 0}}]

\* the transform that get_user_category_preferences passes to _apply_weights
Transform(kind, count) ==
  CASE kind = "favorite" -> _favorite_weight(count)
    [] kind = "history" -> _history_weight(count)
    [] kind = "rating" -> count
    [] kind = "penalty" -> 0 - _penalty_weight(count)

\* mutant: a count that is not positive is applied like the others
_apply_weights_NoSkip(weights, labels, counts, name_map, kind) ==
  LET applied == {t \in DOMAIN counts : Transform(kind, counts[t]) # 0}
  IN [weights |-> [t \in DOMAIN weights \cup applied |->
                     (IF t \in DOMAIN weights THEN weights[t] ELSE 0)
                     + (IF t \in applied THEN Transform(kind, counts[t]) ELSE 0)],
      labels |-> [t \in DOMAIN labels \cup (applied \cap DOMAIN name_map) |->
                    IF t \in DOMAIN labels THEN labels[t] ELSE name_map[t]]]

\* mutant: a later name replaces the label
_apply_weights_LastLabel(weights, labels, counts, name_map, kind) ==
  LET applied == {t \in DOMAIN counts :
                    counts[t] > 0 /\ Transform(kind, counts[t]) # 0}
  IN [weights |-> [t \in DOMAIN weights \cup applied |->
                     (IF t \in DOMAIN weights THEN weights[t] ELSE 0)
                     + (IF t \in applied THEN Transform(kind, counts[t]) ELSE 0)],
      labels |-> [t \in DOMAIN labels \cup (applied \cap DOMAIN name_map) |->
                    IF t \in applied \cap DOMAIN name_map THEN name_map[t] ELSE labels[t]]]

\* the dicts weights and labels after the loop over counts.items()
_apply_weights(weights, labels, counts, name_map, kind) ==
  LET applied == {t \in DOMAIN counts :
                    counts[t] > 0 /\ Transform(kind, counts[t]) # 0}
  IN [weights |-> [t \in DOMAIN weights \cup applied |->
                     (IF t \in DOMAIN weights THEN weights[t] ELSE 0)
                     + (IF t \in applied THEN Transform(kind, counts[t]) ELSE 0)],
      labels |-> [t \in DOMAIN labels \cup (applied \cap DOMAIN name_map) |->
                    IF t \in DOMAIN labels THEN labels[t] ELSE name_map[t]]]

Abs(x) == IF x < 0 THEN 0 - x ELSE x

\* round(value, 3): thousandths, from millionths, half to even
RoundMilli(value) ==
  LET q == Abs(value) \div 1000
      r == Abs(value) % 1000
      rounded == IF r < 500 THEN q
                 ELSE IF r > 500 THEN q + 1
                 ELSE IF q % 2 = 0 THEN q ELSE q + 1
  IN IF value < 0 THEN 0 - rounded ELSE rounded

\* one call _apply_weights(weights, labels, counts, name_map, transform) of
\* get_user_category_preferences
Applied(dicts, counted, kind) ==
  _apply_weights(dicts.weights, dicts.labels, counted.counts, counted.labels, kind)

\* the comprehension normalized_weights, in thousandths
NormalizedWeights(weights) ==
  [t \in {k \in DOMAIN weights : Abs(weights[k]) >= 250000} |-> RoundMilli(weights[t])]

CategoryPreferenceProfile(dicts, reported_ids) ==
  [weights |-> NormalizedWeights(dicts.weights), labels |-> dicts.labels,
   reported_atemporal_ids |-> reported_ids]

get_user_category_preferences(favorites, history, reports) ==
  IF "kind" \in DOMAIN _history_feedback_weights(history, history_limit)
  THEN _history_feedback_weights(history, history_limit)
  ELSE
  CategoryPreferenceProfile(
    Applied(Applied(Applied(Applied([weights |-> <<>>, labels |-> <<>>],
                                    _favorite_category_counts(favorites), "favorite"),
                            _history_category_counts(history, history_limit), "history"),
                    _history_feedback_weights(history, history_limit), "rating"),
            _reported_category_counts(reports), "penalty"),
    _reported_category_counts(reports).reported_ids)

Entry(type, category, activityId, rating) ==
  [type |-> type, category |-> category, activityId |-> activityId, tags |-> <<>>,
   rating |-> rating]

\* the favorites of a user: n of the category Social, named or through the id of
\* a Social activity, and perhaps one more of another category or of an event
FavoriteLists ==
  {[i \in 1 .. n |-> social] \o extra :
     n \in 0 .. MaxFavorites,
     social \in {Entry("atemporal", Social, 0, "None"), Entry("atemporal", NoneStr, 12, "None")},
     extra \in {<<>>, <<Entry("atemporal", Fisica, 0, "None")>>,
                <<Entry("event", Social, 0, "None")>>}}

HistoryEntries ==
  { Entry("atemporal", Social, 0, "1"), Entry("atemporal", Social, 0, "5"),
    Entry("atemporal", Fisica, 0, "None") }

HistoryLists == UNION {[1 .. n -> HistoryEntries] : n \in 0 .. MaxHistory}

ReportLists ==
  { <<>>,
    <<[category |-> Fisica, activity_type |-> "atemporal", activity_id |-> 3]>>,
    <<[category |-> Social, activity_type |-> "atemporal", activity_id |-> 12]>> }

GetPreferences ==
  /\ ~prefs.called
  /\ prefs' = [prefs EXCEPT !.called = TRUE,
                            !.result = get_user_category_preferences(
                                         prefs.favorites, prefs.history, prefs.reports)]
  /\ UNCHANGED <<userDoc, http, rec>> /\ UNCHANGED aiVars /\ UNCHANGED cacheVars

InitPrefs ==
  /\ rec = RecIdle /\ AiIdle /\ CacheIdle
  /\ userDoc = NoDoc /\ http = HttpIdle
  /\ prefs \in [called : {FALSE}, favorites : FavoriteLists, history : HistoryLists,
                reports : ReportLists, result : {<<>>}]

NextPrefs == GetPreferences

SpecPrefs == InitPrefs /\ [][NextPrefs]_vars

SocialToken == <<"s", "o", "c", "i", "a", "l">>

SocialFavorites ==
  Cardinality({i \in DOMAIN prefs.favorites :
                 /\ prefs.favorites[i].type = "atemporal"
                 /\ _resolve_category(prefs.favorites[i]) = Social})

-----------------------------------------------------------------------------
(* Claims about the order of the ranking *)

\* the ids of the returned entries, in the order returned
ResultOrder == [i \in DOMAIN rec.result |-> rec.result[i].id]

TrekkingRequest ==
  /\ rec.called
  /\ rec.user_interests = << <<"Caminatas / trekking">> >>
  /\ rec.preparation_level = <<"desorientado">>
  /\ rec.limit = 5
  /\ rec.categories = <<>>
  /\ rec.time_of_day = "None"

\* C11: for the interest "Caminatas / trekking", level desorientado, limit 5,
\* no category filter and no time of day, whatever the jitter, the result is
\* exactly the two entries carrying that tag, id 1 before id 37, and none of
\* them is the fallback.
C11_TrekkingPair ==
  TrekkingRequest =>
    /\ ResultOrder = <<1, 37>>
    /\ \A i \in DOMAIN rec.result : ~rec.result[i].is_fallback

\* the jitter most favourable to id 37: the lowest for id 1, the highest for id 37
C11_Witness ==
  /\ TrekkingRequest
  /\ rec.jitter[1] = -5
  /\ rec.jitter[37] = 5
  /\ ResultOrder = <<1, 37>>

-----------------------------------------------------------------------------
(* Claims about the interest suggestions *)

\* _interest_suggestions ran on at least one non-blank answer and returned
SuggestReturned ==
  /\ req.op = "suggest"
  /\ ai.done
  /\ ai.result.kind = "ok"
  /\ CleanAnswers(req.interest_answers) # <<>>

\* the position in the loaded catalog of the row with this id
RowIndex(id) == CHOOSE i \in DOMAIN ai.loaded.value : ai.loaded.value[i].row.id = id

\* the dot products of the row with this id with the answer vectors
SimsOfId(id) ==
  [a \in DOMAIN ai.embedded.value |->
     _dot(ai.loaded.value[RowIndex(id)].vec, ai.embedded.value[a])]

\* the best score of the row with this id: the highest of its dot products
BestOfId(id) == MaxOf(SimsOfId(id))

\* C12: with at least one non-blank answer, the first suggestion is a catalog
\* row whose best score (the highest dot product with an answer vector) is the
\* highest of all rows, and the score of every suggestion is the best score of
\* its row rounded to three decimals.
C12_BestRowFirst ==
  SuggestReturned =>
    /\ ai.result.value # <<>>
    /\ \A j \in DOMAIN ai.loaded.value :
         BestOfId(ai.loaded.value[j].row.id) <= BestOfId(ai.result.value[1].id)
    /\ \A k \in DOMAIN ai.result.value :
         /\ \E i \in DOMAIN ai.loaded.value : ai.loaded.value[i].row.id = ai.result.value[k].id
         /\ ai.result.value[k].score = Round3(BestOfId(ai.result.value[k].id))

\* two answers, several suggestions, and the first answer is not the one that
\* gives the first suggestion its score
C12_Witness ==
  /\ SuggestReturned
  /\ Len(ai.embedded.value) = 2
  /\ Len(ai.result.value) >= 2
  /\ SimsOfId(ai.result.value[1].id)[1] < BestOfId(ai.result.value[1].id)

-----------------------------------------------------------------------------
(* Claims about the preparation classifier *)

PreparationClassified == req.op = "preparation" /\ ai.done

\* the dot products of the answer vector with the memoized reference vectors
ReferenceScores ==
  [i \in DOMAIN prepRefs |-> _dot(ai.prep_embedded.value[1], prepRefs[i].vec)]

\* C13: _classify_preparation returns None for an empty or blank answer
\* without calling the provider; for an answer that was embedded it returns
\* None when the highest dot product with the six reference vectors is below
\* 0.25, and otherwise the level of a phrase that reaches that highest dot
\* product (not the level with the best average); whatever it returns is None
\* or one of planificado, intermedio, desorientado.
C13_BestPhraseLevel ==
  PreparationClassified =>
    /\ PreparationText(req.preparation_answer) = <<>> =>
         /\ ai.result = Ok(NoneStr)
         /\ ai.prep_embedded = NotCalled
         /\ ai.ref_embedded = NotCalled
    /\ ai.result.kind = "ok" => ai.result.value \in {NoneStr} \cup ALLOWED_LEVELS
    /\ (/\ PreparationText(req.preparation_answer) # <<>>
        /\ ai.result.kind = "ok"
        /\ ai.prep_embedded.value # <<>>) =>
         /\ Len(prepRefs) = 6
         /\ IF MaxOf(ReferenceScores) < 2500
            THEN ai.result.value = NoneStr
            ELSE \E i \in DOMAIN prepRefs :
                   /\ ReferenceScores[i] = MaxOf(ReferenceScores)
                   /\ ai.result.value = prepRefs[i].level

\* the level is decided by one phrase although the average of its level is not the best
C13_Witness ==
  /\ PreparationClassified
  /\ ai.result = Ok(<<"planificado">>)
  /\ ReferenceScores[1] = 10000
  /\ ReferenceScores[2] = -10000
  /\ ReferenceScores[3] = 6000

-----------------------------------------------------------------------------
(* Claims about the mobility classifier *)

MobilityClassified == req.op = "mobility" /\ ai.done

\* the levels that the exact-match dictionary gives for the tokens of the answer
HitLevels == {<<MOBILITY_EXACT_MATCHES(t)>> : t \in MobilityHits(req.mobility_answer)}

\* C14 as stated: whenever a token of the normalized answer is a key of the
\* exact-match dictionary, the result is the level mapped by that token.
C14_EveryHitDecides ==
  MobilityClassified =>
    \A t \in MobilityHits(req.mobility_answer) :
      ai.result = Ok(<<MOBILITY_EXACT_MATCHES(t)>>)

\* C14: when some token of the normalized answer is a key of the exact-match
\* dictionary, the result is the level mapped by one of those tokens, whatever
\* the phrase check and the keyword scoring would give; it is the level of
\* every such token when they all map to one level ("tengo movilidad baja"
\* gives baja; "movilidad algo limitada" gives baja although "algo limitada"
\* is a keyword of media).
C14_SomeHitDecides ==
  (MobilityClassified /\ MobilityHits(req.mobility_answer) # {}) =>
    /\ ai.result.kind = "ok"
    /\ ai.result.value \in HitLevels
    /\ req.mobility_answer = <<"tengo", " ", "movilidad", " ", "baja">> =>
         ai.result = Ok(<<"baja">>)
    /\ req.mobility_answer = <<"movilidad", " ", "algo", " ", "limitada">> =>
         ai.result = Ok(<<"baja">>)

\* the token "limitada" decides although a keyword of media occurs
C14_Witness ==
  /\ MobilityClassified
  /\ MobilityHits(req.mobility_answer) = {<<"limitada">>}
  /\ KeywordScore(MOBILITY_KEYWORDS("media"), _normalize_text(req.mobility_answer)) > 0
  /\ ai.result = Ok(<<"baja">>)

\* the number of places of the text where the keyword occurs
Occurrences(text, keyword) ==
  Cardinality({i \in 0 .. Len(text) - Len(keyword) :
                 SubSeq(text, i + 1, i + Len(keyword)) = keyword})

\* +2 per occurrence of each keyword phrase of the level
RECURSIVE OccurrenceTotal(_, _)
OccurrenceTotal(keywords, text) ==
  IF keywords = <<>> THEN 0
  ELSE 2 * Occurrences(text, Head(keywords)) + OccurrenceTotal(Tail(keywords), text)

MobilityNormalized == _normalize_text(Strip(req.mobility_answer))

LevelTotal(level) == OccurrenceTotal(MOBILITY_KEYWORDS(level), MobilityNormalized)

\* the keyword scoring is reached: a non-blank answer without dictionary token
\* and without a phrase "movilidad <level>"
KeywordStepReached ==
  /\ MobilityClassified
  /\ req.mobility_answer # NoneStr
  /\ MobilityNormalized # <<>>
  /\ MobilityHits(req.mobility_answer) = {}
  /\ FirstPhrase(levelOrder, MobilityNormalized) = ""

\* C15: in the keyword-scoring step each level scores +2 per occurrence of one
\* of its keyword phrases; the result is the level whose total is non-zero and
\* strictly higher than both other totals, and None when the highest total is
\* shared or every total is zero.
C15_StrictlyHighestOrNone ==
  KeywordStepReached =>
    IF \E l \in {"baja", "media", "alta"} :
         LevelTotal(l) > 0 /\ \A m \in {"baja", "media", "alta"} \ {l} : LevelTotal(l) > LevelTotal(m)
    THEN \E l \in {"baja", "media", "alta"} :
           /\ LevelTotal(l) > 0
           /\ \A m \in {"baja", "media", "alta"} \ {l} : LevelTotal(l) > LevelTotal(m)
           /\ ai.result = Ok(<<l>>)
    ELSE ai.result = Ok(NoneStr)

-----------------------------------------------------------------------------
(* services/huggingface.py: _embed_texts_remote *)

MaxRetries == 3

MaxTexts == 2

\* what one _SESSION.post does: it raises requests.RequestException, or it
\* returns a response; loading: the body contains "loading"; data: what
\* response.json() gives; len: the length of the list; seqs: the shape of its
\* elements
Exception == [kind |-> "RequestException"]

Response(status, loading, data, len, seqs) ==
  [kind |-> "response", status_code |-> status, loading |-> loading, data |-> data,
   len |-> len, seqs |-> seqs]

PostOutcomes ==
  { Exception,
    Response(503, TRUE, "none", 0, "none"),
    Response(503, FALSE, "none", 0, "none"),
    Response(401, FALSE, "none", 0, "none"),
    Response(404, TRUE, "none", 0, "none"),
    Response(429, FALSE, "none", 0, "none"),
    Response(500, TRUE, "none", 0, "none"),
    Response(200, FALSE, "invalid json", 0, "none"),
    Response(200, FALSE, "error", 0, "none"),
    Response(200, FALSE, "error with embeddings", 1, "vectors"),
    Response(200, FALSE, "dict", 0, "none"),
    Response(200, FALSE, "list", 1, "vectors"),
    Response(200, TRUE, "list", 2, "token vectors"),
    Response(200, FALSE, "list", 2, "scalars") }

\* mutant: the wait doubles without a cap
Backoff_Uncapped(attempt) == 2 ^ attempt

\* min(2 ** attempt, 6)
Backoff(attempt) == Min(2 ^ attempt, 6)

\* mutant: a 401 is retried like a 429
Retried_Unauthorized(o) ==
  \/ o.kind = "RequestException"
  \/ o.kind = "response" /\ o.status_code = 503 /\ o.loading
  \/ o.kind = "response" /\ o.status_code \in {401, 429}

\* the outcomes after which the loop sleeps and sends the request again
Retried(o) ==
  \/ o.kind = "RequestException"
  \/ o.kind = "response" /\ o.status_code = 503 /\ o.loading
  \/ o.kind = "response" /\ o.status_code # 401 /\ o.status_code # 404 /\ o.status_code = 429

\* the body of the loop for a response that is not retried: what it raises or returns
Answer(o, n_texts) ==
  IF o.status_code = 401 THEN Raise(ConfigError)
  ELSE IF o.status_code = 404 THEN Raise(RequestError)
  ELSE IF o.status_code >= 400 THEN Raise(RequestError)
  ELSE IF o.data = "invalid json" THEN Raise(RequestError)
  ELSE IF o.data = "error" THEN Raise(RequestError)
  ELSE IF o.data = "dict" THEN Raise(RequestError)
  ELSE IF ~(n_texts > 0 /\ o.len = n_texts) THEN Raise(RequestError)
  ELSE IF o.seqs \notin {"vectors", "token vectors"} THEN Raise(RequestError)
  ELSE Ok([i \in 1 .. o.len |-> o.seqs])

\* one iteration of the loop: the request, then the sleep and the next attempt, or
\* the end of the call
RemoteAttempt ==
  /\ remote.pc = "loop"
  /\ remote.attempt <= remote.retries
  /\ \E o \in PostOutcomes :
       remote' =
         IF Retried(o)
         THEN [remote EXCEPT !.seen = Append(@, o),
                             !.last_error = IF o.kind = "RequestException" THEN "exc" ELSE @,
                             !.slept = Append(@, Backoff(remote.attempt)),
                             !.attempt = @ + 1]
         ELSE [remote EXCEPT !.seen = Append(@, o),
                             !.pc = "done",
                             !.result = Answer(o, remote.n_texts)]
  /\ UNCHANGED <<rec, req, ai, prepRefs, levelOrder, hf, norm>>
  /\ UNCHANGED cacheVars /\ UNCHANGED profileVars

\* the loop ends without a response that could be used
RemoteExhausted ==
  /\ remote.pc = "loop"
  /\ ~(remote.attempt <= remote.retries)
  /\ remote' = [remote EXCEPT !.pc = "done", !.result = Raise(RequestError)]
  /\ UNCHANGED <<rec, req, ai, prepRefs, levelOrder, hf, norm>>
  /\ UNCHANGED cacheVars /\ UNCHANGED profileVars

RetryInputs == -1 .. MaxRetries

InitRemote ==
  /\ rec = RecIdle /\ CacheIdle /\ ProfileIdle
  /\ req = [op |-> "none", interest_answers |-> <<>>, preparation_answer |-> NoneStr,
            mobility_answer |-> NoneStr, top_k |-> 5]
  /\ ai = [done |-> FALSE]
  /\ prepRefs = <<>>
  /\ levelOrder = <<"baja", "media", "alta">>
  /\ hf = HfIdle /\ norm = NormIdle
  /\ \E n \in 0 .. MaxTexts, r \in RetryInputs :
       remote = [RemoteIdle EXCEPT !.pc = "loop", !.n_texts = n, !.retries = r]

NextRemote ==
  \/ RemoteAttempt
  \/ RemoteExhausted

\* the call runs in one thread: the request has a timeout and the sleep ends, so
\* a step that is possible is taken
SpecRemote == InitRemote /\ [][NextRemote]_vars /\ WF_vars(NextRemote)

\* the outcomes that the claim calls transient
Transient(o) ==
  \/ o = Exception
  \/ o.kind = "response" /\ o.status_code = 503 /\ o.loading
  \/ o.kind = "response" /\ o.status_code = 429

AllTransient == \A k \in DOMAIN remote.seen : Transient(remote.seen[k])

RemoteWithinBounds ==
  /\ Len(remote.seen) <= Max(0, remote.retries + 1)
  /\ \A k \in DOMAIN remote.seen : k < Len(remote.seen) => Transient(remote.seen[k])
  /\ Len(remote.slept) = Cardinality({k \in DOMAIN remote.seen : Transient(remote.seen[k])})
  /\ \A k \in DOMAIN remote.slept :
       remote.slept[k] = IF 2 ^ (k - 1) < 6 THEN 2 ^ (k - 1) ELSE 6
  /\ (remote.pc = "done" /\ AllTransient) =>
       /\ remote.result = Raise(RequestError)
       /\ Len(remote.seen) = Max(0, remote.retries + 1)

\* C16: _embed_texts_remote always terminates; it sends at most retries + 1
\* requests, sends again only after a transient outcome (network exception,
\* 503 with "loading" in the body, 429), sleeps min(2^k, 6) seconds after the
\* k-th failed attempt (k from 0), and raises a provider request error when
\* every attempt was transient.
C16_TerminatesWithinRetries == [](RemoteWithinBounds) /\ <>(remote.pc = "done")

\* the retries are used up: four requests, waits of 1, 2, 4 and 6 seconds
C16_Witness ==
  /\ remote.pc = "done"
  /\ remote.retries = 3
  /\ Len(remote.seen) = 4
  /\ remote.slept = <<1, 2, 4, 6>>
  /\ remote.result = Raise(RequestError)

-----------------------------------------------------------------------------
(* Two concurrent calls of ensure_catalog_embeddings over a catalog that nobody edits *)

\* a document whose embedding is up to date
FreshDoc(id, name, category) ==
  [NewDoc(id, name, category) EXCEPT
     !.vector = EmbedVector(_passage_payload(name, category)),
     !.signature = _signature(_passage_payload(name, category)),
     !.text = _passage_payload(name, category)]

\* a document whose embedding was computed for another passage
StaleDoc(id, name, category) ==
  [NewDoc(id, name, category) EXCEPT
     !.vector = EmbedVector(<<"passage: old">>),
     !.signature = _signature(<<"passage: old">>),
     !.text = <<"passage: old">>]

\* the catalogs the two calls start from: empty, seeded without vectors, one
\* row stale, one base row missing beside a row without a name, up to date
PairCatalogs ==
  { <<>>,
    << NewDoc(1, BASE_CATALOG[1].name, BASE_CATALOG[1].category),
       NewDoc(2, BASE_CATALOG[2].name, BASE_CATALOG[2].category) >>,
    << FreshDoc(1, BASE_CATALOG[1].name, BASE_CATALOG[1].category),
       StaleDoc(2, BASE_CATALOG[2].name, BASE_CATALOG[2].category) >>,
    << FreshDoc(1, BASE_CATALOG[2].name, BASE_CATALOG[2].category),
       NewDoc(2, <<" ">>, BASE_CATALOG[1].category) >>,
    << FreshDoc(1, BASE_CATALOG[1].name, BASE_CATALOG[1].category),
       FreshDoc(2, BASE_CATALOG[2].name, BASE_CATALOG[2].category) >> }

InitEnsurePair ==
  /\ rec = RecIdle /\ AiIdle /\ ProfileIdle
  /\ store \in PairCatalogs
  /\ embMemo = <<>>
  /\ threads = [t \in Threads |-> IdleThread]
  /\ ncalls = 0
  /\ lastEdit = NoEdit

\* the steps of the calls interleave freely; nothing else writes the store
NextEnsurePair ==
  \/ \E t \in Threads, force \in BOOLEAN : StartEnsure(t, force)
  \/ \E t \in Threads : SeedSnapshot(t)
  \/ \E t \in Threads : SeedCommit(t)
  \/ \E t \in Threads : ReadCatalog(t)
  \/ \E t \in Threads : Embed(t)
  \/ \E t \in Threads : WriteChunk(t)
  \/ \E t \in Threads : ClearCache(t)

SpecEnsurePair == InitEnsurePair /\ [][NextEnsurePair]_vars

\* both threads have called ensure_catalog_embeddings and both calls returned
BothCompleted ==
  \A t \in Threads :
    threads[t].op = "ensure" /\ threads[t].pc = "idle" /\ threads[t].ret = Ok(<<>>)

\* what a single call leaves: every base name in one document, and for every
\* document with a name the vector and the signature of its passage
StoreComplete ==
  /\ \A b \in DOMAIN BASE_CATALOG :
       Cardinality({i \in DOMAIN store : store[i].name = BASE_CATALOG[b].name}) = 1
  /\ \A i \in DOMAIN store :
       DocName(store[i]) # <<>> =>
         /\ store[i].vector # <<>>
         /\ store[i].text # NoneStr
         /\ store[i].signature = _signature(store[i].text)
         /\ store[i].text = DocPayload(store[i])
         /\ store[i].vector = EmbedVector(store[i].text)

\* C17: when two concurrent ensure_catalog_embeddings calls over the same
\* catalog, which nobody else changes, have both completed, in whatever order
\* their reads, provider calls and batch writes interleaved, the store is what
\* a single call leaves: every row with a non-empty name holds a vector and
\* its stored signature is the signature of its stored passage text.
C17_PairLeavesStoreComplete == BothCompleted => StoreComplete

\* both calls seeded the catalog, both called the provider and both wrote
C17_Witness ==
  /\ BothCompleted
  /\ \A t \in Threads : threads[t].seeded /\ threads[t].wrote /\ threads[t].sent # <<>>
  /\ StoreComplete

-----------------------------------------------------------------------------
(* Claims about the order of the ranking, continued *)

\* the candidates of the request, in catalog order
RequestCandidates ==
  Candidates(InterestNames(rec.user_interests), AllowedCategories(rec.categories))

\* the position of an entry in the catalog
CatalogIndex(id) ==
  CHOOSE i \in DOMAIN ATEMPORAL_ACTIVITIES : ATEMPORAL_ACTIVITIES[i].id = id

\* the score of a candidate before the jitter is added
IntegerScore(id) ==
  BaseScore(InterestNames(rec.user_interests), rec.preparation_level, rec.time_of_day,
            ATEMPORAL_ACTIVITIES[CatalogIndex(id)])

\* the total score of a candidate, in tenths
TotalScore(id) == 10 * IntegerScore(id) + rec.jitter[id]

\* a ranks before b: a higher total, or the same total and earlier in the catalog
RanksBefore(a, b) ==
  \/ TotalScore(a) > TotalScore(b)
  \/ TotalScore(a) = TotalScore(b) /\ CatalogIndex(a) < CatalogIndex(b)

\* the candidates that the limit cut off
CutOff == CandidateIds(rec.user_interests, rec.categories) \ ResultIds

Ranked == rec.called /\ RequestCandidates # <<>>

\* C18: for given inputs and given jitter values the list is determined: it
\* holds the first max(1, limit) candidates in descending order of total
\* score, candidates of equal total in catalog order.
C18_OrderDetermined ==
  Ranked =>
    /\ Len(rec.result) = Min(Len(RequestCandidates), Max(1, rec.limit))
    /\ ResultIds \subseteq CandidateIds(rec.user_interests, rec.categories)
    /\ \A i, j \in DOMAIN rec.result :
         i < j => RanksBefore(rec.result[i].id, rec.result[j].id)
    /\ \A x \in CutOff : \A i \in DOMAIN rec.result : RanksBefore(rec.result[i].id, x)

\* two returned entries of equal total, in catalog order, and a candidate cut off
C18_Witness ==
  /\ Ranked
  /\ CutOff # {}
  /\ \E i, j \in DOMAIN rec.result :
       /\ i < j
       /\ TotalScore(rec.result[i].id) = TotalScore(rec.result[j].id)
       /\ IntegerScore(rec.result[i].id) # IntegerScore(rec.result[j].id)

\* C19: the jitter only breaks ties: an entry listed before another has an
\* integer score that is not lower, and no candidate cut off by the limit has
\* a higher integer score than a returned entry.
C19_JitterOnlyBreaksTies ==
  Ranked =>
    /\ \A i, j \in DOMAIN rec.result :
         i < j => IntegerScore(rec.result[i].id) >= IntegerScore(rec.result[j].id)
    /\ \A x \in CutOff : \A i \in DOMAIN rec.result :
         IntegerScore(x) <= IntegerScore(rec.result[i].id)

-----------------------------------------------------------------------------
(* Claims about the interest suggestions, continued *)

SuggestedRowIds == {ai.result.value[k].id : k \in DOMAIN ai.result.value}

LoadedRowIds == {ai.loaded.value[i].row.id : i \in DOMAIN ai.loaded.value}

\* C20: the suggestions are the longest prefix of the catalog rows in
\* descending order of best score that has at most max(1, top_k) rows and in
\* which every row after the first has a best score of at least 0.33: the
\* scores do not increase, only the first may be below 0.33, and no row is
\* left out in favour of a row with a lower best score.
C20_LongestPrefix ==
  SuggestReturned =>
    /\ Len(ai.result.value) >= 1
    /\ Len(ai.result.value) <= Max(1, req.top_k)
    /\ SuggestedRowIds \subseteq LoadedRowIds
    /\ Cardinality(SuggestedRowIds) = Len(ai.result.value)
    /\ \A k \in DOMAIN ai.result.value :
         k > 1 => /\ BestOfId(ai.result.value[k].id) >= MIN_INTEREST_SCORE
                  /\ BestOfId(ai.result.value[k - 1].id) >= BestOfId(ai.result.value[k].id)
    /\ \A x \in LoadedRowIds \ SuggestedRowIds : \A k \in DOMAIN ai.result.value :
         BestOfId(x) <= BestOfId(ai.result.value[k].id)
    /\ Len(ai.result.value) < Max(1, req.top_k) =>
         \A x \in LoadedRowIds \ SuggestedRowIds : BestOfId(x) < MIN_INTEREST_SCORE

\* the threshold, not top_k, ends the list: two rows returned, room for a third,
\* and rows left
C20_Witness ==
  /\ SuggestReturned
  /\ Len(ai.result.value) = 2
  /\ req.top_k = 3
  /\ LoadedRowIds \ SuggestedRowIds # {}

-----------------------------------------------------------------------------
(* Claims about the mobility classifier across processes *)

\* the levels whose phrase "movilidad <level>" occurs in the normalized answer
PhraseLevels ==
  {l \in {"baja", "media", "alta"} : Contains(MobilityNormalized, <<"movilidad", " ", l>>)}

\* the phrase check decides and more than one level's phrase occurs
SeveralPhrases ==
  /\ MobilityClassified
  /\ req.mobility_answer # NoneStr
  /\ MobilityHits(req.mobility_answer) = {}
  /\ Cardinality(PhraseLevels) > 1

\* C21: when no token is a dictionary hit and the phrase "movilidad <level>"
\* occurs for more than one level, the levels are tried in one fixed order:
\* the result is the same whatever the iteration order of the level set in
\* the process that serves the call.
C21_FixedPhraseOrder ==
  SeveralPhrases =>
    \A order \in Permutations3 :
      _classify_mobility(req.mobility_answer, <<>>, order) = ai.result

\* C27: _classify_mobility is a function of its answer: the result is the
\* same whichever token of the set the loop meets first and whatever the
\* iteration order of the level set.
C27_FunctionOfAnswer ==
  MobilityClassified =>
    \A order \in Permutations3 : \A hit \in FirstHitChoices(req.mobility_answer) :
      _classify_mobility(req.mobility_answer, hit, order) = ai.result

-----------------------------------------------------------------------------
(* Claims about the freshness check of the embedding cache *)

\* a row whose embedding is missing or was computed for another passage
IsStale(doc) ==
  /\ DocName(doc) # <<>>
  /\ \/ doc.vector = <<>>
     \/ doc.signature # _signature(_passage_payload(DocName(doc), doc.category))

StaleRefs == {i \in DOMAIN store : IsStale(store[i])}

PendingRefs(t) == {threads[t].pending[k].ref : k \in DOMAIN threads[t].pending}

\* the call of thread t was ensure_catalog_embeddings(force=False) and has returned
PlainEnsureReturned(t) ==
  /\ threads[t].op = "ensure"
  /\ ~threads[t].force
  /\ threads[t].pc = "idle"

\* C22: ensure_catalog_embeddings(force=False) sends to the provider exactly
\* the rows that have no vector or whose stored signature differs from the
\* computed one; a call that finds no such row calls no provider, writes
\* nothing and does not clear the read cache; so a second call right after a
\* successful one, on a catalog that nobody changed, does nothing.
C22_OnlyStaleRecomputed ==
  \A t \in Threads :
    /\ (threads[t].pc = "embed" /\ ~threads[t].force) =>
         /\ PendingRefs(t) = StaleRefs
         /\ PendingRefs(t) # {}
    /\ (PlainEnsureReturned(t) /\ threads[t].sent = <<>>) =>
         /\ threads[t].provider = "none"
         /\ ~threads[t].wrote
         /\ ~threads[t].cleared
    /\ \A u \in Threads \ {t} :
         (/\ PlainEnsureReturned(t)
          /\ threads[u].op = "ensure" /\ threads[u].pc = "idle" /\ threads[u].ret = Ok(<<>>)
          /\ threads[u].call < threads[t].call
          /\ lastEdit.count = 0) =>
           /\ threads[t].ret = Ok(<<>>)
           /\ threads[t].sent = <<>>
           /\ threads[t].provider = "none"
           /\ ~threads[t].seeded /\ ~threads[t].wrote /\ ~threads[t].cleared

\* a call that wrote, then a second call that found nothing to do
C22_Witness ==
  \E t, u \in Threads :
    /\ PlainEnsureReturned(t)
    /\ threads[u].op = "ensure" /\ threads[u].pc = "idle" /\ threads[u].ret = Ok(<<>>)
    /\ threads[u].wrote
    /\ threads[u].call < threads[t].call
    /\ lastEdit.count = 0
    /\ threads[t].sent = <<>>
    /\ StaleRefs = {}
    /\ store # <<>>

-----------------------------------------------------------------------------
(* embed_texts: the local model, its load recorded in the module globals,
   and the remote API as the second provider *)

MaxEmbedCalls == 2

\* retries: int = 2, the default that every caller of embed_texts uses
DefaultRetries == 2

\* mutant: a failed load is not recorded
_load_local_model_NoRecord(h, construct) ==
  IF h.model # "None" THEN [hf |-> h, result |-> Ok(<<"model">>)]
  ELSE IF h.model_error # "None" THEN [hf |-> h, result |-> Raise(h.model_error)]
  ELSE IF ~h.library
  THEN [hf |-> h, result |-> Raise(ConfigError)]
  ELSE IF construct = "ok"
  THEN [hf |-> [h EXCEPT !.model = "model", !.loads = @ + 1], result |-> Ok(<<"model">>)]
  ELSE [hf |-> [h EXCEPT !.loads = @ + 1], result |-> Raise(RequestError)]

\* _load_local_model with the globals _LOCAL_MODEL (model) and
\* _LOCAL_MODEL_ERROR (model_error); library: SentenceTransformer is not None;
\* construct: what SentenceTransformer(model_source, device=device) does;
\* loads counts these constructions
_load_local_model(h, construct) ==
  IF h.model # "None" THEN [hf |-> h, result |-> Ok(<<"model">>)]
  ELSE IF h.model_error # "None" THEN [hf |-> h, result |-> Raise(h.model_error)]
  ELSE IF ~h.library
  THEN [hf |-> [h EXCEPT !.model_error = ConfigError], result |-> Raise(ConfigError)]
  ELSE IF construct = "ok"
  THEN [hf |-> [h EXCEPT !.model = "model", !.loads = @ + 1], result |-> Ok(<<"model">>)]
  ELSE [hf |-> [h EXCEPT !.model_error = RequestError, !.loads = @ + 1],
        result |-> Raise(RequestError)]

\* _embed_texts_local; encode: what model.encode does
_embed_texts_local(h, construct, encode) ==
  LET loaded == _load_local_model(h, construct)
  IN  IF loaded.result.kind # "ok" THEN loaded
      ELSE IF encode = "ok"
      THEN [hf |-> loaded.hf, result |-> Ok([i \in 1 .. h.n_texts |-> "vectors"])]
      ELSE [hf |-> loaded.hf, result |-> Raise(RequestError)]

\* one provider path of the call and how it ended
Tried(path, result) == [path |-> path, outcome |-> result.kind]

\* embed_texts from "if _API_TOKEN and not _FORCE_LOCAL" on, up to the call of
\* _embed_texts_remote: without the remote path the call raises last_error, and
\* a configuration error when there is none
RemoteOrRaise(h, last_error) ==
  IF h.token /\ ~h.force_local
  THEN [hf |-> [h EXCEPT !.pc = "remote"],
        remote |-> [RemoteIdle EXCEPT !.pc = "loop", !.n_texts = h.n_texts,
                                      !.retries = DefaultRetries]]
  ELSE [hf |-> [h EXCEPT !.pc = "idle",
                         !.result = IF last_error # "None" THEN Raise(last_error)
                                    ELSE Raise(ConfigError)],
        remote |-> RemoteIdle]

\* embed_texts up to the end of the local path: no text is left after the
\* strip (n = 0) and the call returns []; the local model is tried unless
\* _FORCE_REMOTE is set; its error is kept in last_error and raised at once
\* under _FORCE_LOCAL
EmbedTexts ==
  /\ hf.pc = "idle"
  /\ hf.ncalls < MaxEmbedCalls
  /\ \E n \in 0 .. MaxTexts, construct \in {"ok", "fail"}, encode \in {"ok", "fail"} :
       LET h0 == [hf EXCEPT !.ncalls = @ + 1, !.n_texts = n, !.tried = <<>>,
                            !.error_before = hf.model_error,
                            !.result = [kind |-> "none", value |-> <<>>]]
           local == _embed_texts_local(h0, construct, encode)
           h1 == [local.hf EXCEPT !.tried = <<Tried("local", local.result)>>]
           next == IF hf.force_remote THEN RemoteOrRaise(h0, "None")
                   ELSE RemoteOrRaise(h1, local.result.kind)
       IN  IF n = 0
           THEN /\ hf' = [h0 EXCEPT !.result = Ok(<<>>)]
                /\ remote' = RemoteIdle
           ELSE IF ~hf.force_remote /\ local.result.kind = "ok"
           THEN /\ hf' = [h1 EXCEPT !.result = local.result]
                /\ remote' = RemoteIdle
           ELSE IF ~hf.force_remote /\ hf.force_local
           THEN /\ hf' = [h1 EXCEPT !.result = local.result]
                /\ remote' = RemoteIdle
           ELSE /\ hf' = next.hf
                /\ remote' = next.remote
  /\ UNCHANGED <<rec, req, ai, prepRefs, levelOrder, norm>>
  /\ UNCHANGED cacheVars /\ UNCHANGED profileVars

\* embed_texts after _embed_texts_remote: the vectors are returned, a request
\* error is caught, kept in last_error and raised, any other error propagates
EmbedRemoteReturn ==
  /\ hf.pc = "remote"
  /\ remote.pc = "done"
  /\ hf' = [hf EXCEPT !.pc = "idle",
                      !.tried = Append(@, Tried("remote", remote.result)),
                      !.result = remote.result]
  /\ remote' = RemoteIdle
  /\ UNCHANGED <<rec, req, ai, prepRefs, levelOrder, norm>>
  /\ UNCHANGED cacheVars /\ UNCHANGED profileVars

InitEmbed ==
  /\ rec = RecIdle /\ CacheIdle /\ ProfileIdle
  /\ req = [op |-> "none", interest_answers |-> <<>>, preparation_answer |-> NoneStr,
            mobility_answer |-> NoneStr, top_k |-> 5]
  /\ ai = [done |-> FALSE]
  /\ prepRefs = <<>>
  /\ levelOrder = <<"baja", "media", "alta">>
  /\ remote = RemoteIdle
  /\ norm = NormIdle
  /\ \E fl \in BOOLEAN, fr \in BOOLEAN, tk \in BOOLEAN, lib \in BOOLEAN :
       hf = [HfIdle EXCEPT !.force_local = fl, !.force_remote = fr, !.token = tk,
                           !.library = lib]

NextEmbed ==
  \/ EmbedTexts
  \/ RemoteAttempt
  \/ RemoteExhausted
  \/ EmbedRemoteReturn

SpecEmbed == InitEmbed /\ [][NextEmbed]_vars

-----------------------------------------------------------------------------
(* Claims about configuration errors in embed_texts *)

\* an embed_texts call that needed embeddings has ended
EmbedReturned == hf.pc = "idle" /\ hf.ncalls > 0 /\ hf.n_texts > 0

Unauthorized(o) == o.kind = "response" /\ o.status_code = 401

\* the remote call stops at a 401: it is the last request, no sleep follows it
\* and the call raises a configuration error
RemoteStopsAtUnauthorized ==
  \A k \in DOMAIN remote.seen :
    Unauthorized(remote.seen[k]) =>
      /\ k = Len(remote.seen)
      /\ remote.pc = "done"
      /\ remote.result = Raise(ConfigError)
      /\ Len(remote.slept) = k - 1

\* C23 as stated: once a configuration error is detected on any provider path
\* (the local library is missing, or the remote API answers 401), embed_texts
\* makes no further attempt, local or remote, no retry and no sleep, and
\* raises a configuration error, never a request error.
C23_FailFastOnAnyPath ==
  /\ RemoteStopsAtUnauthorized
  /\ EmbedReturned =>
       \A k \in DOMAIN hf.tried :
         hf.tried[k].outcome = ConfigError =>
           /\ k = Len(hf.tried)
           /\ hf.result = Raise(ConfigError)

\* C23 as the code has it: embed_texts fails fast on a configuration error of
\* the remote path (401: last request, no sleep, configuration error raised)
\* and on one of the local path when the local model is forced or no token is
\* configured; otherwise a configuration error of the local path is followed
\* by the remote call, and the call ends as the remote call ends: with its
\* vectors, its request error or its configuration error.
C23_FailFastOnLastPath ==
  /\ RemoteStopsAtUnauthorized
  /\ EmbedReturned =>
       \A k \in DOMAIN hf.tried :
         hf.tried[k].outcome = ConfigError =>
           IF hf.tried[k].path = "remote" \/ hf.force_local \/ ~hf.token
           THEN /\ k = Len(hf.tried)
                /\ hf.result = Raise(ConfigError)
           ELSE /\ k = 1
                /\ Len(hf.tried) = 2
                /\ hf.tried[2].path = "remote"
                /\ hf.result.kind = hf.tried[2].outcome
                /\ hf.result.kind \in {"ok", RequestError, ConfigError}

\* the library is missing, the remote API answers 404: a request error is raised
C23_Witness ==
  /\ EmbedReturned
  /\ hf.tried = <<Tried("local", Raise(ConfigError)), Tried("remote", Raise(RequestError))>>
  /\ hf.result = Raise(RequestError)

-----------------------------------------------------------------------------
(* Claims about the recorded local model and the recorded load error *)

\* a step of the module huggingface keeps what _load_local_model recorded
StickyStep ==
  /\ ~(hf'.model # "None" /\ hf'.model_error # "None")
  /\ (hf'.tried # <<>> /\ hf'.tried[1].path = "local" /\ hf'.tried[1].outcome # "ok"
        /\ hf'.model = "None") =>
       hf'.model_error = hf'.tried[1].outcome
  /\ hf.model_error # "None" =>
       /\ hf'.model_error = hf.model_error
       /\ hf'.model = "None"
       /\ hf'.loads = hf.loads
  /\ hf.model # "None" =>
       /\ hf'.model = hf.model
       /\ hf'.loads = hf.loads
  /\ (hf.model_error # "None" /\ hf'.ncalls = hf.ncalls + 1 /\ hf'.n_texts > 0) =>
       /\ hf'.tried[1] = Tried("local", Raise(hf.model_error))
       /\ IF hf.token /\ ~hf.force_local
          THEN /\ hf'.pc = "remote"
               /\ remote'.pc = "loop"
               /\ remote'.seen = <<>>
          ELSE /\ hf'.pc = "idle"
               /\ Len(hf'.tried) = 1
               /\ remote'.pc = "idle"
               /\ hf'.result = Raise(hf.model_error)

-----------------------------------------------------------------------------
(* The two normalizers of category names: the one of the ranking filter
   (domain_activities.py) and the one of the preference model
   (services/category_preferences.py) *)

MaxNameLen == 3

CategoryNameAtoms == {" ", "S", "o", "I_ACUTE", "COMBINING_ACUTE"}

\* the strings of at most MaxNameLen characters, and None
CategoryNames == {NoneStr} \cup UNION {[1 .. n -> CategoryNameAtoms] : n \in 0 .. MaxNameLen}

\* both functions applied to the same value
NormalizeBoth ==
  /\ ~norm.done
  /\ norm' = [done |-> TRUE, value |-> norm.value,
              ranking |-> _normalize_category_token(norm.value),
              preference |-> CategoryToken(norm.value)]
  /\ UNCHANGED <<rec, req, ai, prepRefs, levelOrder, remote, hf>>
  /\ UNCHANGED cacheVars /\ UNCHANGED profileVars

InitNames ==
  /\ rec = RecIdle /\ CacheIdle /\ ProfileIdle
  /\ req = [op |-> "none", interest_answers |-> <<>>, preparation_answer |-> NoneStr,
            mobility_answer |-> NoneStr, top_k |-> 5]
  /\ ai = [done |-> FALSE]
  /\ prepRefs = <<>>
  /\ levelOrder = <<"baja", "media", "alta">>
  /\ remote = RemoteIdle
  /\ hf = HfIdle
  /\ \E value \in CategoryNames : norm = [done |-> FALSE, value |-> value]

NextNames == NormalizeBoth

SpecNames == InitNames /\ [][NextNames]_vars

\* C26: the normalizer of the ranking filter and the normalizer of the
\* preference model return the same result for every string and for None.
C26_SameToken == norm.done => norm.ranking = norm.preference

\* a name with blanks around it, an upper-case letter and an accented one
C26_Witness ==
  /\ norm.done
  /\ norm.value = <<" ", "I_ACUTE", " ">>
  /\ norm.ranking = <<"i">>
  /\ norm.preference = <<"i">>

-----------------------------------------------------------------------------
(* The preference model on records of every shape: records that resolve to no
   category, ratings that are no rating, the same category under two names *)

MaxRecords == 3

NoCategory == Entry("atemporal", NoneStr, 0, "5")

RecordFavorites ==
  { <<>>, <<Entry("atemporal", SocialToken, 0, "None")>>,
    <<Entry("atemporal", NoneStr, 0, "None")>> }

RecordEntries ==
  { Entry("atemporal", Social, 0, "None"), Entry("atemporal", Social, 0, "1"),
    Entry("atemporal", Social, 0, "6"), Entry("atemporal", Social, 0, "abc"), Entry("atemporal", SocialToken, 0, "4.7"),
    Entry("atemporal", Social, 0, "inf"), NoCategory }

RecordHistories == UNION {[1 .. n -> RecordEntries] : n \in 0 .. MaxRecords}

RecordReports ==
  { <<>>,
    <<[category |-> Social, activity_type |-> "atemporal", activity_id |-> 12]>>,
    <<[category |-> NoneStr, activity_type |-> "event", activity_id |-> 0]>> }

InitRecords ==
  /\ rec = RecIdle /\ AiIdle /\ CacheIdle
  /\ userDoc = NoDoc /\ http = HttpIdle
  /\ prefs \in [called : {FALSE}, favorites : RecordFavorites, history : RecordHistories,
                reports : RecordReports, result : {<<>>}]

NextRecords == GetPreferences

SpecRecords == InitRecords /\ [][NextRecords]_vars

\* the call has returned a profile
ProfileReturned == prefs.called /\ "weights" \in DOMAIN prefs.result

\* the records that the four loops read, in the order favorites, history,
\* ratings, reports, each with its token and its category name
Signal(kind, data) ==
  [kind |-> kind, token |-> EntryToken(data), name |-> _resolve_category(data),
   rating |-> data.rating]

ReportSignal(row) ==
  [kind |-> "report", token |-> CategoryToken(row.category), name |-> row.category,
   rating |-> "None"]

FavoriteSignals ==
  LET rows == SelectSeq(prefs.favorites, LAMBDA r : r.type = "atemporal")
  IN [i \in DOMAIN rows |-> Signal("favorite", rows[i])]

HistorySignals ==
  LET rows == SelectSeq(prefs.history, LAMBDA r : r.type = "atemporal")
  IN [i \in DOMAIN rows |-> Signal("history", rows[i])]

RatingSignals ==
  SelectSeq([i \in DOMAIN HistorySignals |-> [HistorySignals[i] EXCEPT !.kind = "rating"]],
            LAMBDA g : g.rating \in {"1", "2", "3", "4", "5", "4.7"})

ReportSignals == [i \in DOMAIN prefs.reports |-> ReportSignal(prefs.reports[i])]

Signals == FavoriteSignals \o HistorySignals \o RatingSignals \o ReportSignals

SignalTokens == {Signals[i].token : i \in DOMAIN Signals} \ {NoneStr}

CountOf(kind, token) ==
  Cardinality({i \in DOMAIN Signals : Signals[i].kind = kind /\ Signals[i].token = token})

RECURSIVE DeltaSum(_, _)
DeltaSum(signals, token) ==
  IF signals = <<>> THEN 0
  ELSE (IF Head(signals).token = token
          THEN _rating_weight_adjustment(IntOf(Head(signals).rating)) ELSE 0)
       + DeltaSum(Tail(signals), token)

\* favorites + history + ratings - report penalty of one token, in millionths
ContributionSum(token) ==
  (IF CountOf("favorite", token) > 0 THEN _favorite_weight(CountOf("favorite", token)) ELSE 0)
  + (IF CountOf("history", token) > 0 THEN _history_weight(CountOf("history", token)) ELSE 0)
  + DeltaSum(RatingSignals, token)
  - (IF CountOf("report", token) > 0 THEN _penalty_weight(CountOf("report", token)) ELSE 0)

\* C24: every weight of the returned profile has absolute value >= 0.25, and
\* a token is in weights exactly when the sum of its contributions (favorites
\* + history + ratings - report penalty) has absolute value >= 0.25.
C24_NoiseFloor ==
  ProfileReturned =>
    /\ \A t \in DOMAIN prefs.result.weights : Abs(prefs.result.weights[t]) >= 250
    /\ \A t \in SignalTokens :
         t \in DOMAIN prefs.result.weights <=> Abs(ContributionSum(t)) >= 250000

\* a rating that is missing, no number, or outside 1 .. 5
MalformedRating(raw) == raw \in {"None", "True", "abc", "nan", "0", "6", "inf"}

\* the records without those that resolve to no category token, and with no
\* rating where the rating is malformed
WellFormed(rows) ==
  LET kept == SelectSeq(rows, LAMBDA r : EntryToken(r) # NoneStr)
  IN [i \in DOMAIN kept |->
        IF MalformedRating(kept[i].rating) THEN [kept[i] EXCEPT !.rating = "None"]
        ELSE kept[i]]

WellFormedReports == SelectSeq(prefs.reports, LAMBDA r : CategoryToken(r.category) # NoneStr)

\* C25: get_user_category_preferences never raises because of the contents of
\* a record: a record that resolves to no category token changes no weight
\* and no label, a missing, non-numeric or out-of-range rating adds no rating
\* delta, and the other records count as they do without the malformed ones.
C25_MalformedSkipped ==
  prefs.called =>
    /\ ProfileReturned
    /\ LET clean == get_user_category_preferences(
                      WellFormed(prefs.favorites), WellFormed(prefs.history),
                      WellFormedReports)
       IN /\ prefs.result.weights = clean.weights
          /\ prefs.result.labels = clean.labels

\* the name of the first record with the token, in the order favorites,
\* history, ratings, reports
FirstName(token) ==
  LET first == CHOOSE i \in DOMAIN Signals :
                 /\ Signals[i].token = token
                 /\ \A j \in 1 .. i - 1 : Signals[j].token # token
  IN Signals[first].name

\* C28: in every returned profile every token with a weight has a label, and
\* each label is the category name of the first record that contributed the
\* token, in the order favorites, history, ratings, reports.
C28_FirstNameIsLabel ==
  ProfileReturned =>
    /\ DOMAIN prefs.result.weights \subseteq DOMAIN prefs.result.labels
    /\ DOMAIN prefs.result.labels = SignalTokens
    /\ \A t \in DOMAIN prefs.result.labels : prefs.result.labels[t] = FirstName(t)

\* a favorite stored under the name "social", then history under "Social"
C28_Witness ==
  /\ ProfileReturned
  /\ Len(prefs.favorites) = 1
  /\ prefs.favorites[1].category = SocialToken
  /\ Len(prefs.history) = 2
  /\ prefs.history[1].category = Social
  /\ SocialToken \in DOMAIN prefs.result.weights
  /\ prefs.result.labels[SocialToken] = SocialToken

-----------------------------------------------------------------------------
(* Claims about the life of the memoized table *)

\* thread t starts a call of load_interest_embeddings in this step
LoadStarts(t) ==
  /\ threads[t].pc = "idle"
  /\ ncalls' = ncalls + 1
  /\ threads'[t].op = "load"
  /\ threads'[t].call = ncalls'

\* the ensure_catalog_embeddings call of thread t, nested or not, returns in
\* this step
EnsureEnds(t) ==
  /\ threads[t].pc \in {"read", "embed", "clear"}
  /\ threads'[t].pc \in {"idle", "l_read"}

\* the load_interest_embeddings call of thread t ends in this step
LoadEnds(t) ==
  /\ threads[t].op = "load"
  /\ threads[t].pc # "idle"
  /\ threads'[t].pc = "idle"

MemoStep ==
  \A t \in Threads :
    /\ LoadStarts(t) =>
         IF embMemo = <<>>
         THEN /\ threads'[t].pc = "seed"
              /\ threads'[t].nested
              /\ ~threads'[t].hit
         ELSE /\ threads'[t].pc = "idle"
              /\ threads'[t].hit
              /\ threads'[t].ret = Ok(embMemo)
              /\ threads'[t].provider = "none"
              /\ ~threads'[t].seeded /\ ~threads'[t].wrote /\ ~threads'[t].cleared
              /\ store' = store /\ embMemo' = embMemo
    /\ (LoadEnds(t) /\ threads'[t].ret.kind = "ok") =>
         /\ threads'[t].ret.value = LoadRows(store)
         /\ embMemo' = threads'[t].ret.value
    /\ (LoadEnds(t) /\ threads'[t].ret.kind # "ok") => embMemo' = <<>>
    /\ EnsureEnds(t) =>
         IF threads'[t].wrote THEN threads'[t].cleared /\ embMemo' = <<>>
         ELSE ~threads'[t].cleared /\ embMemo' = embMemo
    /\ (~LoadEnds(t) /\ ~EnsureEnds(t) /\ Quiet(t)) => embMemo' = embMemo

\* C29: the first load_interest_embeddings call runs the freshness check and
\* reads the store; after a successful load the later calls return the
\* memoized list with no freshness check, no read of the store and no call of
\* the provider, until an ensure_catalog_embeddings call that writes at least
\* one row clears the memo; a load that raises memoizes nothing, so the next
\* call runs the body again.
C29_MemoLifecycle == [][MemoStep]_vars

\* the second call of the process is a load answered from the memo of the first
C29_Witness ==
  \E t \in Threads :
    /\ threads[t].pc = "idle" /\ threads[t].op = "load"
    /\ threads[t].hit
    /\ threads[t].call = 2
    /\ threads[t].ret = Ok(embMemo)
    /\ embMemo # <<>>
====
